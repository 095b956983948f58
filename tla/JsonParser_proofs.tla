-------------------------- MODULE JsonParser_proofs --------------------------
(***************************************************************************)
(* Proofs about the parser, for every value of its constants.              *)
(*                                                                         *)
(* The first theorem carries everything proved of ContainerStack over to   *)
(* the parser: whatever calls are made, each step does to the stack what   *)
(* ContainerStack allows.  The others add to its invariant, one part for   *)
(* each thing a call leaves for a later one: the latched error, the token, *)
(* the buffered event, the end of the input, the counts of a skip.  The    *)
(* last one has the parser implement the event grammar.                    *)
(***************************************************************************)
EXTENDS JsonParser, ContainerStack_proofs, FiniteSetTheorems

(***************************************************************************)
(* What reading a value does to the stack and to the diagnostic: it opens  *)
(* a container through push, or leaves the stack as it found it; and it    *)
(* returns an error exactly when it has a diagnostic.                      *)
(***************************************************************************)
LEMMA TokenOutcome ==
  ASSUME NEW kind, kind # "error", NEW left, NEW v, NEW m, ReadToken(kind, left, v, m)
  PROVE  m \in {"none", "oom", "syntax"} /\ ((v = "error") <=> (m # "none"))
<1>1. PICK o \in Outcomes(kind, token) : v = o.value /\ m = o.errmsg
  BY DEF ReadToken
<1>2. CASE o = [value |-> kind, errmsg |-> "none", token |-> kind]
  BY <1>1, <1>2
<1>3. CASE \E n \in {"oom", "syntax"} : o = [value |-> "error", errmsg |-> n, token |-> "cut"]
  BY <1>1, <1>3
<1>4. CASE o = [value |-> "error", errmsg |-> "oom", token |-> "null"]
  BY <1>1, <1>4
<1>5. QED
  BY <1>2, <1>3, <1>4 DEF Outcomes

Opens(mem, t, v, m) ==
  /\ Push(mem, t, m)
  /\ m \in {"none", "oom", "depth"}
  /\ v = IF m = "none" THEN t ELSE "error"

Reads(mem, v, m) ==
  /\ Keep(mem)
  /\ m \in {"none", "oom", "syntax"}
  /\ (v = "error") <=> (m # "none")

LEMMA ReadValueEffect ==
  ASSUME NEW r, NEW mem, NEW v, NEW m, ReadValue(r, mem, v, m)
  PROVE  (\E t \in Container : Opens(mem, t, v, m)) \/ Reads(mem, v, m)
<1>1. ASSUME NEW t \in Container, Push(mem, t, m), v = IF m = "none" THEN t ELSE "error"
      PROVE  Opens(mem, t, v, m)
  BY <1>1 DEF Opens, Push
<1>2. ASSUME Keep(mem), ReadString(r.rest, v, m) PROVE Reads(mem, v, m)
  BY <1>2, TokenOutcome DEF ReadString, Reads
<1>3. ASSUME Keep(mem), ReadNumber(r.rest, v, m) PROVE Reads(mem, v, m)
  BY <1>3, TokenOutcome DEF ReadNumber, Reads
<1>4. ASSUME Keep(mem), IsMatch(r.rest, v, m) PROVE Reads(mem, v, m)
  BY <1>4 DEF IsMatch, Literal, Reads
<1>5. ASSUME Keep(mem), v = "error", m = "syntax" PROVE Reads(mem, v, m)
  BY <1>5 DEF Reads
<1>6. QED
  BY <1>1, <1>2, <1>3, <1>4, <1>5 DEF ReadValue

(***************************************************************************)
(* A step of the parser on the stack: one of ContainerStack's, or none.    *)
(***************************************************************************)
LEMMA OpensSteps ==
  ASSUME ~Latched, NEW mem \in Blocks, NEW t \in Container, NEW v, NEW m, Opens(mem, t, v, m),
         errmsg' = m \/ (m = "none" /\ errmsg' = "syntax")
  PROVE  StackNext
<1>1. m \in Message
  BY DEF Opens, Message
<1>2. PushStep
  BY <1>1 DEF PushStep, Opens, Latched
<1>3. QED
  BY <1>2 DEF StackNext

LEMMA ReadsSteps ==
  ASSUME ~Latched, NEW mem \in Blocks, Keep(mem), errmsg' \in Message
  PROVE  [StackNext]_stackVars
<1>1. CASE errmsg' # "none"
  <2>1. FailStep
    BY <1>1 DEF FailStep, Keep, Latched
  <2>2. QED
    BY <2>1 DEF StackNext
<1>2. CASE errmsg' = "none" /\ mem = stack
  BY <1>2 DEF Keep, Latched, stackVars
<1>3. CASE errmsg' = "none" /\ mem # stack
  <2>1. CountStep
    BY <1>3 DEF CountStep, Blocks, Keep, Latched
  <2>2. QED
    BY <2>1 DEF StackNext
<1>4. QED
  BY <1>1, <1>2, <1>3

LEMMA ReadValueSteps ==
  ASSUME ~Latched, NEW r, NEW mem \in Blocks, NEW v, NEW m, ReadValue(r, mem, v, m),
         errmsg' = m \/ (m = "none" /\ errmsg' = "syntax")
  PROVE  [StackNext]_stackVars
<1>1. CASE \E t \in Container : Opens(mem, t, v, m)
  BY <1>1, OpensSteps
<1>2. CASE Reads(mem, v, m)
  <2>1. errmsg' \in Message /\ Keep(mem)
    BY <1>2 DEF Reads, Message
  <2>2. QED
    BY <2>1, ReadsSteps
<1>3. QED
  BY <1>1, <1>2, ReadValueEffect

(* The block with the enclosing container counted is one a step may leave. *)
LEMMA BlocksFacts ==
  /\ stack \in Blocks
  /\ CountLeft => Counted \in Blocks
BY DEF Blocks

(***************************************************************************)
(* What one call of nextEvent that makes an event does: a step of the      *)
(* stack, an error event exactly when a diagnostic is latched, and "state" *)
(* only where no frame was found.                                          *)
(***************************************************************************)
Effect(e) ==
  /\ [StackNext]_stackVars
  /\ (e = "error") <=> (errmsg' # "none")
  /\ errmsg' # "state"

LEMMA ReadValueIsEffect ==
  ASSUME ~Latched, NEW r, NEW mem \in Blocks, NEW e, ReadValue(r, mem, e, errmsg')
  PROVE  Effect(e)
<1>1. [StackNext]_stackVars
  BY ReadValueSteps
<1>2. (e = "error") <=> (errmsg' # "none")
  BY ReadValueEffect DEF Opens, Reads, Container
<1>3. errmsg' # "state"
  BY ReadValueEffect DEF Opens, Reads
<1>4. QED
  BY <1>1, <1>2, <1>3 DEF Effect

LEMMA ReadMemberIsEffect ==
  ASSUME ~Latched, CountLeft, NEW r, NEW e, ReadMember(r, e)
  PROVE  Effect(e)
<1>1. CASE ReadValue(r, Counted, e, errmsg')
  BY <1>1, BlocksFacts, ReadValueIsEffect
<1>2. CASE \E v \in Event \ {"string"}, m \in Message :
             /\ ReadValue(r, stack, v, m)
             /\ e = "error"
             /\ errmsg' = IF v = "error" THEN m ELSE "syntax"
  <2>1. PICK v \in Event \ {"string"}, m \in Message :
               /\ ReadValue(r, stack, v, m)
               /\ e = "error"
               /\ errmsg' = IF v = "error" THEN m ELSE "syntax"
    BY <1>2
  <2>2. ((v = "error") <=> (m # "none")) /\ m # "state"
    BY <2>1, ReadValueEffect DEF Opens, Reads, Container
  <2>3. errmsg' = m \/ (m = "none" /\ errmsg' = "syntax")
    BY <2>1, <2>2
  <2>4. [StackNext]_stackVars
    BY <2>1, <2>3, BlocksFacts, ReadValueSteps
  <2>5. QED
    BY <2>1, <2>2, <2>4 DEF Effect
<1>3. QED
  BY <1>1, <1>2 DEF ReadMember

LEMMA RejectIsEffect ==
  ASSUME ~Latched, NEW rest, NEW e, Reject(rest, e)
  PROVE  Effect(e)
<1>1. Keep(stack) /\ errmsg' = "syntax" /\ errmsg' \in Message
  BY DEF Reject, Keep, Message
<1>2. [StackNext]_stackVars
  BY <1>1, BlocksFacts, ReadsSteps
<1>3. QED
  BY <1>1, <1>2 DEF Effect, Reject

LEMMA CloseIsEffect ==
  ASSUME ~Latched, NEW t \in Container, NEW rest, NEW e, Close(t, rest, e)
  PROVE  Effect(e)
<1>1. PICK m \in Message :
             /\ Pop(t, m)
             /\ errmsg' = m
             /\ e = IF m # "none" THEN "error"
                    ELSE IF t = "array" THEN "array_end" ELSE "object_end"
  BY DEF Close
<1>2. PopStep
  BY <1>1 DEF PopStep, Latched
<1>3. (e = "error") <=> (m # "none")
  BY <1>1
<1>4. m # "state"
  BY <1>1 DEF Pop
<1>5. QED
  BY <1>1, <1>2, <1>3, <1>4 DEF Effect, StackNext

LEMMA AfterValueIsEffect ==
  ASSUME ~Latched, NEW e, AfterValue(e)
  PROVE  Effect(e)
<1>1. Keep(stack)
  BY DEF AfterValue, Keep
<1>2. \/ e = "done" /\ errmsg' = "none"
      \/ e = "error" /\ errmsg' = "syntax"
  BY DEF AfterValue, Latched
<1>3. [StackNext]_stackVars
  BY <1>1, <1>2, BlocksFacts, ReadsSteps DEF Message
<1>4. QED
  BY <1>2, <1>3 DEF Effect

LEMMA FirstValueIsEffect ==
  ASSUME ~Latched, NEW e, FirstValue(e)
  PROVE  Effect(e)
<1>1. PICK r \in NextChar(src) :
             IF r.byte = "eof" /\ streaming
               THEN /\ e = "done" /\ src' = r.rest
                    /\ UNCHANGED <<stack, stackTop, stackSize, errmsg, started, token>>
               ELSE ReadValue(r, stack, e, errmsg')
  BY DEF FirstValue
<1>2. CASE ReadValue(r, stack, e, errmsg')
  BY <1>2, BlocksFacts, ReadValueIsEffect
<1>3. CASE e = "done" /\ UNCHANGED <<stack, stackTop, stackSize, errmsg>>
  BY <1>3 DEF Effect, stackVars, Latched
<1>4. QED
  BY <1>1, <1>2, <1>3

LEMMA InArrayIsEffect ==
  ASSUME ~Latched, CountLeft, NEW e, InArray(e)
  PROVE  Effect(e)
<1>1. PICK r \in NextChar(src) :
             \/ Close("array", r.rest, e)
             \/ ReadValue(r, Counted, e, errmsg')
             \/ \E r2 \in NextChar(r.rest) : ReadValue(r2, Counted, e, errmsg')
             \/ Reject(r.rest, e)
  BY DEF InArray
<1>2. QED
  BY <1>1, BlocksFacts, ReadValueIsEffect, CloseIsEffect, RejectIsEffect DEF Container

LEMMA InObjectIsEffect ==
  ASSUME ~Latched, CountLeft, NEW e, InObject(e)
  PROVE  Effect(e)
<1>1. PICK r \in NextChar(src) :
             \/ Close("object", r.rest, e)
             \/ ReadMember(r, e)
             \/ \E r2 \in NextChar(r.rest) : ReadMember(r2, e)
             \/ \E r2 \in NextChar(r.rest) : ReadValue(r2, Counted, e, errmsg')
             \/ Reject(r.rest, e)
  BY DEF InObject
<1>2. QED
  BY <1>1, BlocksFacts, ReadMemberIsEffect, ReadValueIsEffect, CloseIsEffect, RejectIsEffect
     DEF Container

(* With nothing latched a container that is open has its frame, and the    *)
(* frame is an array's or an object's.                                     *)
LEMMA FrameFound ==
  ASSUME StackInv, ~Latched
  PROVE  AtTop \/ (HasFrame /\ CurrentFrame.type \in Container)
BY TopInsideBlock DEF AtTop, Latched, Frame

LEMMA NewEventIsEffect ==
  ASSUME StackInv, ~Latched, NEW e, NewEvent(e)
  PROVE  Effect(e)
<1>1. ~NoFrame(e) /\ ~OtherFrame(e)
  BY FrameFound DEF NoFrame, OtherFrame
<1>2. CASE AfterValue(e)
  BY <1>2, AfterValueIsEffect
<1>3. CASE FirstValue(e)
  BY <1>3, FirstValueIsEffect
<1>4. CASE InArray(e)
  <2>1. CountLeft
    BY <1>4 DEF NewEvent, InArray
  <2>2. QED
    BY <1>4, <2>1, InArrayIsEffect
<1>5. CASE InObject(e)
  <2>1. CountLeft
    BY <1>5 DEF NewEvent, InObject
  <2>2. QED
    BY <1>5, <2>1, InObjectIsEffect
<1>6. QED
  BY <1>1, <1>2, <1>3, <1>4, <1>5 DEF NewEvent

LEMMA NextEventIsEffect ==
  ASSUME StackInv, NEW e, NextEvent(e)
  PROVE  [StackNext]_stackVars /\ (errmsg' = "state" => errmsg = "state")
<1>1. CASE Latched /\ UNCHANGED stackVars
  BY <1>1 DEF stackVars
<1>2. CASE ~Latched /\ UNCHANGED stackVars
  BY <1>2 DEF stackVars
<1>3. CASE ~Latched /\ NewEvent(e)
  BY <1>3, NewEventIsEffect DEF Effect
<1>4. QED
  BY <1>1, <1>2, <1>3 DEF NextEvent

LEMMA PeekIsEffect ==
  ASSUME StackInv, Peek
  PROVE  [StackNext]_stackVars /\ (errmsg' = "state" => errmsg = "state")
<1>1. CASE UNCHANGED stackVars
  BY <1>1 DEF stackVars
<1>2. CASE \E e \in Event : ~Latched /\ NewEvent(e)
  BY <1>2, NewEventIsEffect DEF Effect
<1>3. QED
  BY <1>1, <1>2 DEF Peek, parserVars

LEMMA StepOnStack ==
  ASSUME StackInv, [Next]_vars
  PROVE  [StackNext]_stackVars /\ (errmsg' = "state" => errmsg = "state")
<1>1. CASE NextCall
  BY <1>1, NextEventIsEffect DEF NextCall
<1>2. CASE Peek
  BY <1>2, PeekIsEffect
<1>3. CASE BeginSkip
  BY <1>3 DEF BeginSkip, parserVars, stackVars
<1>4. CASE SkipStep
  BY <1>4, NextEventIsEffect DEF SkipStep
<1>5. CASE Reset
  BY <1>5 DEF Reset, ResetStep, StackNext
<1>6. CASE SetStreaming \/ SourceGet \/ SourcePeek
  BY <1>6 DEF SetStreaming, SourceGet, SourcePeek, stackVars
<1>7. CASE UNCHANGED vars
  BY <1>7 DEF vars, parserVars, stackVars
<1>8. QED
  BY <1>1, <1>2, <1>3, <1>4, <1>5, <1>6, <1>7 DEF Next

(***************************************************************************)
(* The parser drives the container stack only through the operations of    *)
(* ContainerStack, and only while no error is latched, whatever the input, *)
(* the allocator and the order of the caller's calls.                      *)
(***************************************************************************)
THEOREM DrivesStack == Spec => DrivesContainerStack
<1>1. Init => StackInit
  BY DEF Init
<1>2. StackInv /\ [Next]_vars => [StackNext]_stackVars
  BY StepOnStack
<1>3. StackInv /\ [StackNext]_stackVars => StackInv'
  BY StackInvKept
<1>4. StackInit => StackInv
  BY StackInvInit
<1>5. QED
  BY <1>1, <1>2, <1>3, <1>4, PTL DEF Spec, DrivesContainerStack, StackSpec

(***************************************************************************)
(* The parser never reads a frame nobody wrote: ContainerStack's invariant *)
(* holds of it.                                                            *)
(***************************************************************************)
THEOREM ParserStackInvariant == Spec => []StackInv
BY DrivesStack, StackInvariant, PTL DEF DrivesContainerStack

(***************************************************************************)
(* "invalid parser state" is dead code in both its places: no sequence of  *)
(* calls, no input and no refusal of the allocator makes nextEvent find a  *)
(* container without a frame, or a frame of neither an array nor an        *)
(* object.                                                                 *)
(***************************************************************************)
THEOREM InvalidStateUnreachable == Spec => []NeverInvalidState
<1>1. Init => NeverInvalidState
  BY DEF Init, StackInit, NeverInvalidState
<1>2. StackInv /\ NeverInvalidState /\ [Next]_vars => NeverInvalidState'
  BY StepOnStack DEF NeverInvalidState
<1>3. QED
  BY <1>1, <1>2, ParserStackInvariant, PTL DEF Spec

(***************************************************************************)
(* json_get_depth and json_get_context never contradict each other while   *)
(* no error is latched, on any stack limit and any growth step.            *)
(***************************************************************************)
THEOREM ContextFollowsDepth == Spec => []ContextAgreesWithDepth
<1>1. StackInv => ContextAgreesWithDepth
  <2>1. SUFFICES ASSUME StackInv, ~Latched
                 PROVE  (Depth = 0) <=> (Context = "done")
    BY DEF ContextAgreesWithDepth
  <2>2. CASE stackTop = Empty
    BY <2>1, <2>2, TopInsideBlock DEF Latched, Context, HasFrame
  <2>3. CASE stackTop # Empty
    <3>1. HasFrame /\ Depth = stackTop + 1 /\ stackTop \in Nat /\ CurrentFrame \in Frame
      BY <2>1, <2>3, TopInsideBlock DEF Latched, StackInv, StackTypeOK
    <3>2. Context = CurrentFrame.type /\ Context \in Container
      BY <3>1 DEF Context, Frame
    <3>3. QED
      BY <3>1, <3>2 DEF Container
  <2>4. QED
    BY <2>2, <2>3
<1>2. QED
  BY <1>1, ParserStackInvariant, PTL

-----------------------------------------------------------------------------
(***************************************************************************)
(* The source.  A byte that was peeked at is still to come, so there is    *)
(* room for it in what is left.                                            *)
(***************************************************************************)
SourceOK(s) == s \in Source /\ (s.ahead \in Byte => s.left > 0)

LEMMA AheadFacts ==
  /\ Byte \subseteq Ahead /\ {"eof", "none", "space"} \subseteq Ahead
  /\ "eof" \notin Byte /\ "none" \notin Byte /\ "space" \notin Byte
  /\ Ahead = Byte \union {"space", "eof", "none"}
  /\ MaxUnits \in Nat
<1>1. MaxUnits \in Nat
  BY CallsAssumption DEF CallsAssumption
<1>2. "eof" \notin Byte /\ "none" \notin Byte /\ "space" \notin Byte
  BY DEF Byte
<1>3. QED
  BY <1>1, <1>2 DEF Ahead

LEMMA SourceIntro ==
  ASSUME NEW l \in 0 .. MaxUnits, NEW a \in Ahead, a \in Byte => l > 0
  PROVE  SourceOK([left |-> l, ahead |-> a])
BY DEF SourceOK, Source

LEMMA SourceElim ==
  ASSUME NEW s, SourceOK(s)
  PROVE  /\ s.left \in 0 .. MaxUnits /\ s.ahead \in Ahead
         /\ s.ahead \in Byte => s.left > 0
         /\ \A a : [s EXCEPT !.ahead = a] = [left |-> s.left, ahead |-> a]
         /\ s.left > 0 => SourceOK(Took(s))
<1>1. /\ s.left \in 0 .. MaxUnits /\ s.ahead \in Ahead
      /\ s.ahead \in Byte => s.left > 0
      /\ \A a : [s EXCEPT !.ahead = a] = [left |-> s.left, ahead |-> a]
  BY DEF SourceOK, Source
<1>2. ASSUME s.left > 0 PROVE SourceOK(Took(s))
  <2>1. s.left - 1 \in 0 .. MaxUnits
    BY <1>1, <1>2, AheadFacts
  <2>2. QED
    BY <2>1, AheadFacts, SourceIntro DEF Took
<1>3. QED
  BY <1>1, <1>2

LEMMA EndIsSource == SourceOK(AtEnd)
<1>1. 0 \in 0 .. MaxUnits
  BY AheadFacts
<1>2. QED
  BY <1>1, AheadFacts, SourceIntro DEF AtEnd

(* What reading a byte comes to: the end, or a byte and one unit less. *)
LEMMA ReadingCases ==
  ASSUME NEW s, SourceOK(s), NEW r, r \in NextChar(s) \/ (r \in Get(s) /\ r.byte # "space")
  PROVE  \/ r = [byte |-> "eof", rest |-> AtEnd]
         \/ s.left > 0 /\ \E b \in Byte : r = [byte |-> b, rest |-> Took(s)]
<1> DEFINE eof == [byte |-> "eof", rest |-> AtEnd]
<1>1. ASSUME r \in Fresh(s)
      PROVE  r = eof \/ (s.left > 0 /\ \E b \in Byte : r = [byte |-> b, rest |-> Took(s)])
  <2>1. s.left \in Nat
    BY SourceElim, AheadFacts
  <2>2. s.left = 0 => r = eof
    BY <1>1 DEF Fresh
  <2>3. s.left # 0 => r = eof \/ \E b \in Byte : r = [byte |-> b, rest |-> Took(s)]
    BY <1>1 DEF Fresh
  <2>4. s.left # 0 => s.left > 0
    BY <2>1
  <2>5. QED
    BY <2>2, <2>3, <2>4
<1>2. s.ahead \in Byte \union {"space", "eof", "none"} /\ (s.ahead \in Byte => s.left > 0)
  BY SourceElim, AheadFacts
<1>3. r = eof \/ (s.left > 0 /\ \E b \in Byte : r = [byte |-> b, rest |-> Took(s)])
  <2>1. ASSUME r \in NextChar(s)
        PROVE  r = eof \/ (s.left > 0 /\ \E b \in Byte : r = [byte |-> b, rest |-> Took(s)])
    <3>1. CASE s.ahead = "eof"
      BY <2>1, <3>1 DEF NextChar
    <3>2. CASE s.ahead \in {"none", "space"}
      BY <1>1, <2>1, <3>2 DEF NextChar
    <3>3. CASE s.ahead \notin {"eof", "none", "space"}
      <4>1. r = [byte |-> s.ahead, rest |-> Took(s)]
        BY <2>1, <3>3 DEF NextChar
      <4>2. QED
        BY <1>2, <3>3, <4>1
    <3>4. QED
      BY <3>1, <3>2, <3>3
  <2>2. ASSUME r \in Get(s), r.byte # "space" PROVE r \in NextChar(s)
    <3>1. CASE s.ahead = "space"
      BY <2>2, <3>1 DEF Get
    <3>2. CASE s.ahead = "none"
      BY <2>2, <3>2 DEF Get, NextChar
    <3>3. CASE s.ahead \notin {"space", "none"}
      BY <2>2, <3>3 DEF Get
    <3>4. QED
      BY <3>1, <3>2, <3>3
  <2>3. QED
    BY <2>1, <2>2
<1>4. QED
  BY <1>3

LEMMA ReadingFacts ==
  ASSUME NEW s, SourceOK(s), NEW r, r \in NextChar(s) \/ (r \in Get(s) /\ r.byte # "space")
  PROVE  /\ SourceOK(r.rest) /\ SourceOK(Peeked(s, r))
         /\ r.byte \in Byte \union {"eof"}
<1> DEFINE eof == [byte |-> "eof", rest |-> AtEnd]
<1>2. CASE r = eof
  <2>1. r.byte = "eof" /\ r.rest = AtEnd /\ AtEnd.left + 0 = 0
    BY <1>2 DEF AtEnd
  <2>2. Peeked(s, r) = AtEnd
    BY <2>1 DEF Peeked, AtEnd
  <2>3. QED
    BY <2>1, <2>2, EndIsSource
<1>3. ASSUME NEW b \in Byte, s.left > 0, r = [byte |-> b, rest |-> Took(s)]
      PROVE  /\ SourceOK(r.rest) /\ SourceOK(Peeked(s, r))
             /\ r.byte \in Byte \union {"eof"}
  <2>1. b # "eof" /\ b \in Ahead
    BY <1>3, AheadFacts
  <2>2. r.rest = Took(s) /\ r.byte = b /\ r.rest.left = s.left - 1
    BY <1>3 DEF Took
  <2>3. s.left \in 0 .. MaxUnits /\ r.rest.left + 1 = s.left
    BY <2>2, SourceElim, AheadFacts
  <2>4. Peeked(s, r) = [left |-> s.left, ahead |-> b]
    BY <2>1, <2>2, <2>3 DEF Peeked
  <2>5. SourceOK(Peeked(s, r))
    BY <1>3, <2>1, <2>3, <2>4, SourceIntro
  <2>6. QED
    BY <1>3, <2>2, <2>5, SourceElim
<1>6. r = eof \/ (s.left > 0 /\ \E b \in Byte : r = [byte |-> b, rest |-> Took(s)])
  BY ReadingCases
<1>7. QED
  BY <1>2, <1>3, <1>6

LEMMA SourceFacts ==
  ASSUME NEW s, SourceOK(s)
  PROVE  /\ \A r \in Get(s) : SourceOK(r.rest)
         /\ \A t \in Lookahead(s) : SourceOK(t)
         /\ \A t \in CutShort(s) : SourceOK(t)
         /\ \A t \in Consumed(s) : SourceOK(t)
         /\ SourceOK(AtEnd)
<1>1. SourceOK(AtEnd)
  BY EndIsSource
<1>2. SourceOK([s EXCEPT !.ahead = "none"]) /\ SourceOK([s EXCEPT !.ahead = "space"])
  <2>1. /\ s.left \in 0 .. MaxUnits
        /\ [s EXCEPT !.ahead = "none"] = [left |-> s.left, ahead |-> "none"]
        /\ [s EXCEPT !.ahead = "space"] = [left |-> s.left, ahead |-> "space"]
    BY SourceElim
  <2>2. "none" \in Ahead \ Byte /\ "space" \in Ahead \ Byte
    BY AheadFacts
  <2>3. SourceOK([left |-> s.left, ahead |-> "none"]) /\ SourceOK([left |-> s.left, ahead |-> "space"])
    BY <2>1, <2>2, SourceIntro
  <2>4. QED
    BY <2>1, <2>3
<1>3. ASSUME NEW r \in Get(s), r.byte = "space" PROVE SourceOK(r.rest)
  <2>1. CASE s.ahead = "space"
    BY <1>2, <1>3, <2>1 DEF Get
  <2>2. CASE s.ahead = "none"
    <3>1. r \notin Fresh(s)
      BY <1>3, AheadFacts DEF Fresh
    <3>2. r = [byte |-> "space", rest |-> s]
      BY <2>2, <3>1 DEF Get
    <3>3. QED
      BY <3>2
  <2>3. CASE s.ahead \notin {"space", "none"}
    <3>1. r \in NextChar(s)
      BY <2>3 DEF Get
    <3>2. QED
      BY <3>1, ReadingFacts
  <2>4. QED
    BY <2>1, <2>2, <2>3
<1>4. \A r \in Get(s) : SourceOK(r.rest)
  BY <1>3, ReadingFacts
<1>5. \A t \in Lookahead(s) : SourceOK(t)
  BY <1>2, ReadingFacts DEF Lookahead
<1>6. \A t \in Consumed(s) : SourceOK(t)
  BY SourceElim, AheadFacts DEF Consumed
<1>7. \A t \in CutShort(s) : SourceOK(t)
  BY <1>1, <1>6 DEF CutShort
<1>8. QED
  BY <1>1, <1>4, <1>5, <1>6, <1>7

-----------------------------------------------------------------------------
(***************************************************************************)
(* Types.                                                                  *)
(***************************************************************************)
InputOK == SourceOK(src) /\ token \in Buffer /\ started \in BOOLEAN

LEMMA ReadTokenTypes ==
  ASSUME token \in Buffer, NEW kind \in {"string", "number"}, NEW left, NEW v, NEW m,
         ReadToken(kind, left, v, m), NEW S,
         \A t \in {"null", "cut", kind} : \A x \in left[t] : x \in S
  PROVE  token' \in Buffer /\ src' \in S
<1>1. PICK o \in Outcomes(kind, token) : token' = o.token /\ src' \in left[o.token]
  BY DEF ReadToken
<1>2. CASE o = [value |-> kind, errmsg |-> "none", token |-> kind]
  BY <1>1, <1>2 DEF Buffer
<1>3. CASE \E n \in {"oom", "syntax"} : o = [value |-> "error", errmsg |-> n, token |-> "cut"]
  BY <1>1, <1>3 DEF Buffer
<1>4. CASE o = [value |-> "error", errmsg |-> "oom", token |-> "null"]
  BY <1>1, <1>4 DEF Buffer
<1>5. QED
  BY <1>2, <1>3, <1>4 DEF Outcomes

LEMMA ReadValueTypes ==
  ASSUME InputOK, NEW r, SourceOK(r.rest), NEW mem, NEW v, NEW m, ReadValue(r, mem, v, m)
  PROVE  InputOK'
<1> DEFINE S == {t \in Source : SourceOK(t)}
<1>0. \A t : SourceOK(t) <=> t \in S
  BY DEF SourceOK
<1>1. token \in Buffer /\ started' = TRUE
  BY DEF InputOK, ReadValue
<1>2. /\ r.rest \in S
      /\ \A t \in Lookahead(r.rest) : t \in S
      /\ \A t \in CutShort(r.rest) : t \in S
      /\ \A t \in Consumed(r.rest) : t \in S
      /\ AtEnd \in S
  BY <1>0, SourceFacts
<1> HIDE DEF S
<1>3. ASSUME ReadString(r.rest, v, m) PROVE token' \in Buffer /\ src' \in S
  <2> DEFINE left == [null |-> {r.rest}, cut |-> CutShort(r.rest), string |-> Consumed(r.rest)]
  <2>1. \A t \in {"null", "cut", "string"} : \A x \in left[t] : x \in S
    BY <1>2
  <2>2. ReadToken("string", left, v, m)
    BY <1>3 DEF ReadString
  <2> HIDE DEF left
  <2>3. QED
    BY <1>1, <2>1, <2>2, ReadTokenTypes
<1>4. ASSUME ReadNumber(r.rest, v, m) PROVE token' \in Buffer /\ src' \in S
  <2> DEFINE left == [null |-> {r.rest}, cut |-> CutShort(r.rest) \union Lookahead(r.rest),
                      number |-> Lookahead(r.rest)]
  <2>1. \A t \in {"null", "cut", "number"} : \A x \in left[t] : x \in S
    BY <1>2
  <2>2. ReadToken("number", left, v, m)
    BY <1>4 DEF ReadNumber
  <2> HIDE DEF left
  <2>3. QED
    BY <1>1, <2>1, <2>2, ReadTokenTypes
<1>5. ASSUME IsMatch(r.rest, v, m) PROVE token' \in Buffer /\ src' \in S
  BY <1>1, <1>2, <1>5 DEF IsMatch
<1>6. ASSUME src' = r.rest, UNCHANGED token PROVE token' \in Buffer /\ src' \in S
  BY <1>1, <1>2, <1>6
<1>7. token' \in Buffer /\ src' \in S
  BY <1>3, <1>4, <1>5, <1>6 DEF ReadValue
<1>8. SourceOK(src')
  BY <1>0, <1>7
<1>9. QED
  BY <1>1, <1>7, <1>8 DEF InputOK, SourceOK

(* Two bytes off the source, and a value that starts at the second. *)
LEMMA NextCharTypes ==
  ASSUME InputOK, NEW r \in NextChar(src)
  PROVE  /\ SourceOK(r.rest) /\ SourceOK(Peeked(src, r))
         /\ \A r2 \in NextChar(r.rest) : SourceOK(r2.rest)
<1>1. SourceOK(r.rest) /\ SourceOK(Peeked(src, r))
  BY ReadingFacts DEF InputOK
<1>2. QED
  BY <1>1, ReadingFacts

LEMMA RestTypes ==
  ASSUME InputOK, NEW rest, SourceOK(rest), src' = rest, UNCHANGED <<started, token>>
  PROVE  InputOK'
BY DEF InputOK, SourceOK

LEMMA ReadMemberTypes ==
  ASSUME InputOK, NEW r, SourceOK(r.rest), NEW e, ReadMember(r, e)
  PROVE  InputOK'
<1>1. PICK mem, v, m : ReadValue(r, mem, v, m)
  BY DEF ReadMember
<1>2. QED
  BY <1>1, ReadValueTypes

LEMMA NewEventTypes ==
  ASSUME InputOK, NEW e, NewEvent(e)
  PROVE  InputOK'
<1>1. CASE AfterValue(e)
  <2>1. CASE UNCHANGED src
    BY <1>1, <2>1 DEF AfterValue, InputOK, SourceOK
  <2>2. CASE \E r \in NextChar(src) : src' = Peeked(src, r)
    BY <1>1, <2>2, NextCharTypes, RestTypes DEF AfterValue
  <2>3. QED
    BY <1>1, <2>1, <2>2 DEF AfterValue
<1>2. CASE FirstValue(e)
  <2>1. PICK r \in NextChar(src) :
               \/ src' = r.rest /\ UNCHANGED <<started, token>>
               \/ ReadValue(r, stack, e, errmsg')
    BY <1>2 DEF FirstValue
  <2>2. QED
    BY <2>1, NextCharTypes, RestTypes, ReadValueTypes
<1>3. CASE NoFrame(e) \/ OtherFrame(e)
  <2>1. PICK r \in NextChar(src) : src' = r.rest /\ UNCHANGED <<started, token>>
    BY <1>3 DEF NoFrame, OtherFrame, InvalidState
  <2>2. QED
    BY <2>1, NextCharTypes, RestTypes
<1>4. CASE InArray(e)
  <2>1. PICK r \in NextChar(src) :
               \/ Close("array", r.rest, e)
               \/ ReadValue(r, Counted, e, errmsg')
               \/ \E r2 \in NextChar(r.rest) : ReadValue(r2, Counted, e, errmsg')
               \/ Reject(r.rest, e)
    BY <1>4 DEF InArray
  <2>2. QED
    BY <2>1, NextCharTypes, RestTypes, ReadValueTypes DEF Close, Reject
<1>5. CASE InObject(e)
  <2>1. PICK r \in NextChar(src) :
               \/ Close("object", r.rest, e)
               \/ ReadMember(r, e)
               \/ \E r2 \in NextChar(r.rest) : ReadMember(r2, e)
               \/ \E r2 \in NextChar(r.rest) : ReadValue(r2, Counted, e, errmsg')
               \/ Reject(r.rest, e)
    BY <1>5 DEF InObject
  <2>2. QED
    BY <2>1, NextCharTypes, RestTypes, ReadValueTypes, ReadMemberTypes DEF Close, Reject
<1>6. QED
  BY <1>1, <1>2, <1>3, <1>4, <1>5 DEF NewEvent

(***************************************************************************)
(* The inductive invariant of the parser: ContainerStack's, and the types  *)
(* of the parser's own variables.                                          *)
(***************************************************************************)
MaybeEvent == Event \union {"none"}

CallsOK ==
  /\ streaming \in BOOLEAN
  /\ next \in MaybeEvent /\ event \in MaybeEvent /\ emitted \in MaybeEvent
  /\ call \in SkipCall

ParserInv == StackInv /\ InputOK /\ CallsOK

LEMMA TallyFacts ==
  ASSUME NEW c \in SkipCall, NEW e \in Event
  PROVE  /\ Tally(c, e) \in SkipCall
         /\ Tally(c, e).first = IF c.first = "none" THEN e ELSE c.first
         /\ Tally(c, e).op = c.op /\ Tally(c, e).target = c.target
<1> DEFINE first == IF c.first = "none" THEN e ELSE c.first
           arr == CASE e = "array"                  -> c.arr + 1
                    [] e = "array_end" /\ c.arr > 0 -> c.arr - 1
                    [] OTHER                        -> c.arr
           obj == CASE e = "object"                  -> c.obj + 1
                    [] e = "object_end" /\ c.obj > 0 -> c.obj - 1
                    [] OTHER                         -> c.obj
<1>1. c.arr \in Nat /\ c.obj \in Nat /\ c.first \in Event \union {"none"}
  BY DEF SkipCall
<1>2. arr \in Nat
  BY <1>1
<1>3. obj \in Nat
  BY <1>1
<1>4. first \in Event \union {"none"}
  BY <1>1
<1>5. Tally(c, e) = [c EXCEPT !.first = first, !.arr = arr, !.obj = obj]
  BY DEF Tally
<1> HIDE DEF first, arr, obj
<1>6. Tally(c, e) = [op |-> c.op, target |-> c.target, first |-> first,
                     arr |-> arr, obj |-> obj, base |-> c.base]
  BY <1>5 DEF SkipCall
<1>7. Tally(c, e) \in SkipCall
  BY <1>2, <1>3, <1>4, <1>6 DEF SkipCall
<1>8. QED
  BY <1>6, <1>7 DEF first

LEMMA SkippingFacts ==
  /\ \A op \in {"idle", "skip", "skip_until"}, t \in Targets \union {"none"}, b \in Int :
       Skipping(op, t, b) \in SkipCall /\ Skipping(op, t, b).first = "none"
  /\ Idle \in SkipCall /\ Idle.first = "none"
<1>1. \A op \in {"idle", "skip", "skip_until"}, t \in Targets \union {"none"}, b \in Int :
        Skipping(op, t, b) \in SkipCall /\ Skipping(op, t, b).first = "none"
  BY DEF Skipping, SkipCall
<1>2. QED
  BY <1>1 DEF Idle

LEMMA BaseDepthIsInteger == StackInv => BaseDepth \in Int
<1>1. ASSUME StackInv PROVE Depth \in Int
  BY <1>1, IndexArithmetic DEF StackInv, StackTypeOK, Depth
<1>2. QED
  BY <1>1 DEF BaseDepth

LEMMA NextEventTypes ==
  ASSUME InputOK, CallsOK, NEW e \in Event, NextEvent(e)
  PROVE  InputOK' /\ next' \in MaybeEvent /\ emitted' \in MaybeEvent
<1>1. CASE UNCHANGED <<inputVars, started>>
  BY <1>1 DEF NextEvent, InputOK, SourceOK, inputVars, CallsOK, MaybeEvent, NewEvent
<1>2. CASE NewEvent(e)
  BY <1>2, NewEventTypes DEF NextEvent, CallsOK, MaybeEvent, NewEvent
<1>3. QED
  BY <1>1, <1>2 DEF NextEvent

LEMMA ParserInvInit == Init => ParserInv
<1>1. SUFFICES ASSUME Init PROVE ParserInv
  OBVIOUS
<1>2. StackInv
  BY <1>1, StackInvInit DEF Init
<1>3. SourceOK(src)
  <2>1. MaxUnits \in 0 .. MaxUnits
    BY AheadFacts
  <2>2. QED
    BY <1>1, <2>1, AheadFacts, SourceIntro DEF Init
<1>4. CallsOK
  BY <1>1, SkippingFacts DEF Init, CallsOK, MaybeEvent
<1>5. QED
  BY <1>1, <1>2, <1>3, <1>4 DEF Init, ParserInv, InputOK, Buffer

LEMMA SkipStepTypes ==
  ASSUME ParserInv, StackInv', SkipStep
  PROVE  InputOK' /\ CallsOK'
<1>1. PICK e \in Event :
        /\ NextEvent(e)
        /\ LET c == Tally(call, e) IN
             CASE e \in {"error", "done"} -> Return(e)
               [] e \notin {"error", "done"} /\ (c.arr # 0 \/ c.obj # 0) ->
                    call' = c /\ UNCHANGED event
               [] OTHER ->
                    IF c.op = "skip" \/ c.first = c.target THEN Return(c.first)
                    ELSE /\ call' = Skipping(c.op, c.target, BaseDepth')
                         /\ UNCHANGED event
  BY DEF SkipStep
<1> DEFINE c == Tally(call, e)
<1>2. InputOK' /\ next' \in MaybeEvent /\ emitted' \in MaybeEvent
  BY <1>1, NextEventTypes DEF ParserInv
<1>3. c \in SkipCall /\ c.first \in Event
  <2>1. call \in SkipCall /\ call.first \in Event \union {"none"}
    BY DEF ParserInv, CallsOK, SkipCall
  <2>2. QED
    BY <2>1, TallyFacts
<1>4. BaseDepth' \in Int
  <2>1. StackInv' => (BaseDepth \in Int)'
    BY BaseDepthIsInteger, PTL
  <2>2. QED
    BY <2>1
<1>5. c.op \in {"idle", "skip", "skip_until"} /\ c.target \in Targets \union {"none"}
  BY <1>3 DEF SkipCall
<1>6. \/ \E x \in Event : Return(x)
      \/ call' = c /\ UNCHANGED event
      \/ call' = Skipping(c.op, c.target, BaseDepth') /\ UNCHANGED event
  BY <1>1, <1>3
<1> HIDE DEF c
<1>7. call' \in SkipCall /\ event' \in MaybeEvent
  BY <1>3, <1>4, <1>5, <1>6, SkippingFacts DEF Return, ParserInv, CallsOK, MaybeEvent
<1>8. QED
  BY <1>2, <1>7 DEF SkipStep, ParserInv, CallsOK

LEMMA ParserInvKept == ParserInv /\ [Next]_vars => ParserInv'
<1> SUFFICES ASSUME ParserInv, [Next]_vars PROVE ParserInv'
  OBVIOUS
<1>1. StackInv'
  BY StepOnStack, StackInvKept DEF ParserInv
<1> USE DEF ParserInv
<1>2. CASE NextCall
  BY <1>1, <1>2, NextEventTypes DEF NextCall, CallsOK, MaybeEvent
<1>3. CASE Peek
  <2>1. CASE UNCHANGED <<parserVars, emitted>> /\ event' = next
    BY <1>1, <1>3, <2>1 DEF Peek, parserVars, InputOK, SourceOK, CallsOK
  <2>2. ASSUME NEW e \in Event, NewEvent(e), next' = e, event' = e, UNCHANGED streaming
        PROVE  ParserInv'
    BY <1>1, <1>3, <2>2, NewEventTypes DEF Peek, CallsOK, MaybeEvent, NewEvent
  <2>3. ASSUME NEW e \in Event, UNCHANGED <<inputVars, started, emitted, streaming>>,
               next' = e, event' = e
        PROVE  ParserInv'
    BY <1>1, <1>3, <2>3 DEF Peek, inputVars, InputOK, SourceOK, CallsOK, MaybeEvent
  <2>4. QED
    BY <1>3, <2>1, <2>2, <2>3 DEF Peek
<1>4. CASE BeginSkip
  <2>1. call' \in SkipCall
    BY <1>4, SkippingFacts, BaseDepthIsInteger DEF BeginSkip
  <2>2. QED
    BY <1>1, <1>4, <2>1 DEF BeginSkip, parserVars, InputOK, SourceOK, CallsOK, MaybeEvent
<1>5. CASE SkipStep
  BY <1>1, <1>5, SkipStepTypes
<1>6. CASE Reset
  BY <1>1, <1>6 DEF Reset, InputOK, SourceOK, CallsOK, MaybeEvent
<1>7. CASE SetStreaming
  BY <1>1, <1>7 DEF SetStreaming, inputVars, InputOK, SourceOK, CallsOK, MaybeEvent
<1>8. CASE SourceGet \/ SourcePeek
  <2>1. SourceOK(src')
    BY <1>8, SourceFacts DEF SourceGet, SourcePeek, InputOK
  <2>2. QED
    BY <1>1, <1>8, <2>1 DEF SourceGet, SourcePeek, InputOK, SourceOK, CallsOK
<1>9. CASE UNCHANGED vars
  BY <1>1, <1>9 DEF vars, parserVars, InputOK, SourceOK, CallsOK
<1>10. QED
  BY <1>2, <1>3, <1>4, <1>5, <1>6, <1>7, <1>8, <1>9 DEF Next

THEOREM ParserInvariant == Spec => []ParserInv
BY ParserInvInit, ParserInvKept, PTL DEF Spec

(***************************************************************************)
(* The parser's variables keep their types under every order of calls.     *)
(***************************************************************************)
THEOREM ParserTypeCorrect == Spec => []ParserTypeOK
<1>1. ParserInv => ParserTypeOK
  BY DEF ParserInv, StackInv, InputOK, SourceOK, CallsOK, MaybeEvent, ParserTypeOK
<1>2. QED
  BY <1>1, ParserInvariant, PTL

-----------------------------------------------------------------------------
(***************************************************************************)
(* Errors and their diagnostics.  An ERROR that a peek has buffered is one *)
(* whose diagnostic is latched; a reset over it would break that, which is *)
(* why the caller has to be careful.                                       *)
(***************************************************************************)
ErrorInv ==
  /\ event = "error" => Latched
  /\ next = "error" => Latched
  /\ call.first # "error"

LEMMA NextEventLatches ==
  ASSUME StackInv, next = "error" => Latched, NEW e, NextEvent(e)
  PROVE  /\ e = "error" => Latched'
         /\ next' = "error" => Latched'
         /\ Latched => Latched'
<1>1. CASE Latched /\ UNCHANGED <<stackVars, next>>
  BY <1>1 DEF stackVars, Latched
<1>2. CASE ~Latched /\ e = next /\ next' = "none" /\ UNCHANGED stackVars
  BY <1>2
<1>3. CASE ~Latched /\ next = "none" /\ NewEvent(e) /\ UNCHANGED next
  <2>1. Effect(e)
    BY <1>3, NewEventIsEffect
  <2>2. QED
    BY <1>3, <2>1 DEF Effect, Latched
<1>4. QED
  BY <1>1, <1>2, <1>3 DEF NextEvent

LEMMA ErrorInvKept ==
  ASSUME Careful = TRUE, ParserInv, ErrorInv, [Next]_vars
  PROVE  ErrorInv'
<1> USE DEF ErrorInv
<1>1. StackInv /\ call \in SkipCall /\ (next = "error" => Latched)
  BY DEF ParserInv, CallsOK
<1>2. CASE NextCall
  <2>1. PICK e \in Event : NextEvent(e) /\ event' = e /\ UNCHANGED call
    BY <1>2 DEF NextCall
  <2>2. QED
    BY <1>1, <2>1, NextEventLatches
<1>3. CASE Peek
  <2>1. CASE event' = next /\ UNCHANGED <<parserVars, call>>
    BY <2>1 DEF parserVars, stackVars, Latched
  <2>2. ASSUME NEW e \in Event, ~Latched, NewEvent(e), next' = e, event' = e, UNCHANGED call
        PROVE  ErrorInv'
    <3>1. e = "error" => Latched'
      BY <1>1, <2>2, NewEventIsEffect DEF Effect, Latched
    <3>2. QED
      BY <2>2, <3>1
  <2>3. CASE Latched /\ UNCHANGED <<stackVars, call>>
    BY <2>3 DEF stackVars, Latched
  <2>4. QED
    BY <1>3, <2>1, <2>2, <2>3 DEF Peek
<1>4. CASE BeginSkip
  <2>1. /\ call'.first = "none" /\ event' = "none" /\ UNCHANGED <<next, errmsg>>
    BY <1>1, <1>4, SkippingFacts, BaseDepthIsInteger DEF BeginSkip, parserVars, stackVars
  <2>2. QED
    BY <2>1 DEF Latched
<1>5. CASE SkipStep
  <2>1. PICK e \in Event :
          /\ NextEvent(e)
          /\ LET c == Tally(call, e) IN
               CASE e \in {"error", "done"} -> Return(e)
                 [] e \notin {"error", "done"} /\ (c.arr # 0 \/ c.obj # 0) ->
                      call' = c /\ UNCHANGED event
                 [] OTHER ->
                      IF c.op = "skip" \/ c.first = c.target THEN Return(c.first)
                      ELSE /\ call' = Skipping(c.op, c.target, BaseDepth')
                           /\ UNCHANGED event
    BY <1>5 DEF SkipStep
  <2> DEFINE c == Tally(call, e)
  <2>2. /\ e = "error" => Latched'
        /\ next' = "error" => Latched'
        /\ Latched => Latched'
    BY <1>1, <2>1, NextEventLatches
  <2>3. c \in SkipCall /\ (e # "error" => c.first # "error")
    BY <1>1, TallyFacts
  <2>4. c.op \in {"idle", "skip", "skip_until"} /\ c.target \in Targets \union {"none"}
    BY <2>3 DEF SkipCall
  <2>5. BaseDepth' \in Int
    <3>1. StackInv' => (BaseDepth \in Int)'
      BY BaseDepthIsInteger, PTL
    <3>2. StackInv'
      BY ParserInvKept DEF ParserInv
    <3>3. QED
      BY <3>1, <3>2
  <2>6. \/ Return(e)
        \/ e # "error" /\ Return(c.first)
        \/ e # "error" /\ call' = c /\ UNCHANGED event
        \/ call' = Skipping(c.op, c.target, BaseDepth') /\ UNCHANGED event
    BY <2>1
  <2> HIDE DEF c
  <2>7. call'.first # "error" /\ (event' = "error" => Latched')
    BY <2>2, <2>3, <2>4, <2>5, <2>6, SkippingFacts DEF Return
  <2>8. QED
    BY <2>2, <2>7
<1>6. CASE Reset
  BY <1>6 DEF Reset
<1>7. CASE SetStreaming \/ SourceGet \/ SourcePeek \/ UNCHANGED vars
  BY <1>7 DEF SetStreaming, SourceGet, SourcePeek, vars, parserVars, stackVars, Latched
<1>8. QED
  BY <1>2, <1>3, <1>4, <1>5, <1>6, <1>7 DEF Next

LEMMA ErrorInvHolds ==
  ASSUME Careful = TRUE
  PROVE  Spec => []ErrorInv
<1>1. Init => ErrorInv
  BY SkippingFacts DEF Init, ErrorInv
<1>2. ParserInv /\ ErrorInv /\ [Next]_vars => ErrorInv'
  BY ErrorInvKept
<1>3. QED
  BY <1>1, <1>2, ParserInvariant, PTL DEF Spec

(***************************************************************************)
(* A caller that does not reset over a buffered event never gets an ERROR  *)
(* without a diagnostic, from json_next, json_peek or either skip.         *)
(***************************************************************************)
THEOREM ErrorsHaveMessages ==
  ASSUME Careful = TRUE
  PROVE  Spec => []ErrorHasMessage
<1>1. ErrorInv => ErrorHasMessage
  BY DEF ErrorInv, ErrorHasMessage
<1>2. QED
  BY <1>1, ErrorInvHolds, PTL

(***************************************************************************)
(* An error latches: from the ERROR to the reset no call touches the       *)
(* stack, the token or the diagnostic, or returns anything but ERROR and   *)
(* what a peek had buffered.                                               *)
(***************************************************************************)
THEOREM ErrorsLatch == Spec => ErrorIsLatched
<1> DEFINE Held == Latched /\ ~(call = Idle /\ emitted' = "none" /\ errmsg' = "none")
           Kept == /\ UNCHANGED <<stackVars, token, started>>
                   /\ event' # event => event' \in {"error", "none", next}
<1>1. ASSUME Held, [Next]_vars PROVE Kept
  <2>1. ASSUME NEW e, NextEvent(e)
        PROVE  e = "error" /\ UNCHANGED <<stackVars, token, started>>
    BY <1>1, <2>1 DEF NextEvent, inputVars
  <2>2. CASE NextCall
    BY <2>1, <2>2 DEF NextCall
  <2>3. CASE Peek
    BY <1>1, <2>3 DEF Peek, parserVars, inputVars
  <2>4. CASE BeginSkip
    BY <2>4 DEF BeginSkip, parserVars
  <2>5. CASE SkipStep
    <3>1. PICK e \in Event : NextEvent(e) /\ (e = "error" => Return(e))
      BY <2>5 DEF SkipStep
    <3>2. QED
      BY <2>1, <3>1 DEF Return
  <2>6. CASE Reset
    BY <1>1, <2>6 DEF Reset, ResetStep
  <2>7. CASE SetStreaming \/ SourceGet \/ SourcePeek \/ UNCHANGED vars
    BY <2>7 DEF SetStreaming, SourceGet, SourcePeek, vars, parserVars, inputVars
  <2>8. QED
    BY <1>1, <2>2, <2>3, <2>4, <2>5, <2>6, <2>7 DEF Next
<1> HIDE DEF Held, Kept
<1>2. [Next]_vars => [Held => Kept]_vars
  BY <1>1
<1>3. Spec => [][Held => Kept]_vars
  BY <1>2, PTL DEF Spec
<1>4. QED
  BY <1>3 DEF ErrorIsLatched, Held, Kept

-----------------------------------------------------------------------------
(***************************************************************************)
(* Progress.  No read gives input back, and an event that neither ends the *)
(* text nor is an error has consumed some.                                 *)
(***************************************************************************)
LEMMA ReadingConsumes ==
  ASSUME NEW s, SourceOK(s), NEW r, r \in NextChar(s) \/ (r \in Get(s) /\ r.byte # "space")
  PROVE  /\ r.rest.left <= s.left /\ Peeked(s, r).left <= s.left
         /\ r.byte # "eof" => r.rest.left < s.left
<1>1. s.left \in Nat
  BY SourceElim, AheadFacts
<1>2. CASE r = [byte |-> "eof", rest |-> AtEnd]
  BY <1>1, <1>2 DEF AtEnd, Peeked
<1>3. CASE \E b \in Byte : r = [byte |-> b, rest |-> Took(s)]
  <2>1. r.rest.left = s.left - 1 /\ r.byte # "eof"
    BY <1>3, AheadFacts DEF Took
  <2>2. Peeked(s, r).left = r.rest.left + 1
    BY <2>1 DEF Peeked
  <2>3. QED
    BY <1>1, <2>1, <2>2
<1>4. QED
  BY <1>2, <1>3, ReadingCases

LEMMA SourceShrinks ==
  ASSUME NEW s, SourceOK(s)
  PROVE  \A t \in Lookahead(s) \union CutShort(s) \union Consumed(s) \union {AtEnd} :
           t.left <= s.left
<1>1. s.left \in Nat
  BY SourceElim, AheadFacts
<1>2. AtEnd.left <= s.left
  BY <1>1 DEF AtEnd
<1>3. \A t \in Consumed(s) : t.left <= s.left
  BY <1>1 DEF Consumed, Took
<1>4. \A t \in CutShort(s) : t.left <= s.left
  BY <1>1, <1>2, <1>3 DEF CutShort
<1>5. ASSUME NEW t \in Lookahead(s) PROVE t.left <= s.left
  <2>1. PICK r \in Get(s) : t = IF r.byte = "space" THEN [s EXCEPT !.ahead = "space"] ELSE Peeked(s, r)
    BY DEF Lookahead
  <2>2. CASE r.byte = "space"
    <3>1. t = [left |-> s.left, ahead |-> "space"]
      BY <2>1, <2>2, SourceElim
    <3>2. QED
      BY <1>1, <3>1
  <2>3. CASE r.byte # "space"
    BY <2>1, <2>3, ReadingConsumes
  <2>4. QED
    BY <2>2, <2>3
<1>6. QED
  BY <1>2, <1>3, <1>4, <1>5

LEMMA ReadValueConsumes ==
  ASSUME InputOK, NEW r, SourceOK(r.rest), NEW mem, NEW v, NEW m, ReadValue(r, mem, v, m)
  PROVE  src'.left <= r.rest.left /\ (v # "error" => r.byte # "eof")
<1> DEFINE S == {t \in Lookahead(r.rest) \union CutShort(r.rest) \union Consumed(r.rest)
                         \union {AtEnd, r.rest} : t.left <= r.rest.left}
<1>1. token \in Buffer
  BY DEF InputOK
<1>2. r.rest.left \in Nat
  BY SourceElim, AheadFacts
<1>3. /\ r.rest \in S
      /\ \A t \in Lookahead(r.rest) : t \in S
      /\ \A t \in CutShort(r.rest) : t \in S
      /\ \A t \in Consumed(r.rest) : t \in S
      /\ AtEnd \in S
  BY <1>2, SourceShrinks
<1>4. \A t \in S : t.left <= r.rest.left
  OBVIOUS
<1> HIDE DEF S
<1>5. ASSUME ReadString(r.rest, v, m) PROVE src' \in S
  <2> DEFINE left == [null |-> {r.rest}, cut |-> CutShort(r.rest), string |-> Consumed(r.rest)]
  <2>1. \A t \in {"null", "cut", "string"} : \A x \in left[t] : x \in S
    BY <1>3
  <2>2. ReadToken("string", left, v, m)
    BY <1>5 DEF ReadString
  <2> HIDE DEF left
  <2>3. QED
    BY <1>1, <2>1, <2>2, ReadTokenTypes
<1>6. ASSUME ReadNumber(r.rest, v, m) PROVE src' \in S
  <2> DEFINE left == [null |-> {r.rest}, cut |-> CutShort(r.rest) \union Lookahead(r.rest),
                      number |-> Lookahead(r.rest)]
  <2>1. \A t \in {"null", "cut", "number"} : \A x \in left[t] : x \in S
    BY <1>3
  <2>2. ReadToken("number", left, v, m)
    BY <1>6 DEF ReadNumber
  <2> HIDE DEF left
  <2>3. QED
    BY <1>1, <2>1, <2>2, ReadTokenTypes
<1>7. ASSUME IsMatch(r.rest, v, m) PROVE src' \in S
  BY <1>3, <1>7 DEF IsMatch
<1>8. src' \in S
  BY <1>3, <1>5, <1>6, <1>7 DEF ReadValue
<1>9. v # "error" => r.byte # "eof"
  BY DEF ReadValue, Starter
<1>10. QED
  BY <1>4, <1>8, <1>9

LEMMA FirstByteConsumes ==
  ASSUME InputOK, NEW r \in NextChar(src), NEW mem, NEW v, v # "error", NEW m,
         \/ src' = r.rest /\ r.byte # "eof"
         \/ ReadValue(r, mem, v, m)
         \/ r.byte # "eof" /\ \E r2 \in NextChar(r.rest) : ReadValue(r2, mem, v, m)
  PROVE  src'.left < src.left
<1>1. SourceOK(src) /\ SourceOK(r.rest) /\ src.left \in Nat /\ r.rest.left \in Nat
  BY NextCharTypes, SourceElim, AheadFacts DEF InputOK
<1>2. r.rest.left <= src.left /\ (r.byte # "eof" => r.rest.left < src.left)
  BY <1>1, ReadingConsumes
<1>3. CASE src' = r.rest /\ r.byte # "eof"
  BY <1>2, <1>3
<1>4. ASSUME NEW x \in NextChar(src) \union NextChar(r.rest), SourceOK(x.rest), ReadValue(x, mem, v, m)
      PROVE  /\ x.byte # "eof" /\ src'.left <= x.rest.left
             /\ x.rest.left \in Nat /\ SourceOK(src') /\ src'.left \in Nat
  <2>1. InputOK'
    BY <1>4, ReadValueTypes
  <2>2. SourceOK(src')
    BY <2>1 DEF InputOK, SourceOK
  <2>3. QED
    BY <1>4, <2>2, ReadValueConsumes, SourceElim, AheadFacts
<1>5. CASE ReadValue(r, mem, v, m)
  BY <1>1, <1>2, <1>4, <1>5
<1>6. CASE r.byte # "eof" /\ \E r2 \in NextChar(r.rest) : ReadValue(r2, mem, v, m)
  <2>1. PICK r2 \in NextChar(r.rest) : ReadValue(r2, mem, v, m)
    BY <1>6
  <2>2. SourceOK(r2.rest)
    BY NextCharTypes
  <2>3. r2.rest.left <= r.rest.left
    BY <1>1, ReadingConsumes
  <2>4. r2.byte # "eof" /\ src'.left <= r2.rest.left /\ r2.rest.left \in Nat /\ src'.left \in Nat
    BY <1>4, <2>1, <2>2
  <2>5. QED
    BY <1>1, <1>2, <1>6, <2>3, <2>4
<1>7. QED
  BY <1>3, <1>5, <1>6

LEMMA NewEventConsumes ==
  ASSUME InputOK, NEW e, e \notin {"error", "done"}, NewEvent(e)
  PROVE  src'.left < src.left
<1>1. ~AfterValue(e) /\ ~NoFrame(e) /\ ~OtherFrame(e)
  BY DEF AfterValue, NoFrame, OtherFrame, InvalidState
<1>2. CASE FirstValue(e)
  <2>1. PICK r \in NextChar(src) : ReadValue(r, stack, e, errmsg')
    BY <1>2 DEF FirstValue
  <2>2. QED
    BY <2>1, FirstByteConsumes
<1>3. CASE InArray(e)
  <2>1. PICK r \in NextChar(src) :
               \/ r.byte = "]" /\ Close("array", r.rest, e)
               \/ ReadValue(r, Counted, e, errmsg')
               \/ r.byte = "," /\ \E r2 \in NextChar(r.rest) : ReadValue(r2, Counted, e, errmsg')
               \/ Reject(r.rest, e)
    BY <1>3 DEF InArray
  <2>2. QED
    BY <2>1, FirstByteConsumes DEF Close, Reject
<1>4. CASE InObject(e)
  <2>1. \A x : ReadMember(x, e) => ReadValue(x, Counted, e, errmsg')
    BY DEF ReadMember
  <2>2. PICK r \in NextChar(src) :
               \/ r.byte = "}" /\ Close("object", r.rest, e)
               \/ ReadMember(r, e)
               \/ r.byte = "," /\ \E r2 \in NextChar(r.rest) : ReadMember(r2, e)
               \/ r.byte = ":" /\ \E r2 \in NextChar(r.rest) : ReadValue(r2, Counted, e, errmsg')
               \/ Reject(r.rest, e)
    BY <1>4 DEF InObject
  <2>3. QED
    BY <2>1, <2>2, FirstByteConsumes DEF Close, Reject
<1>5. QED
  BY <1>1, <1>2, <1>3, <1>4 DEF NewEvent

(***************************************************************************)
(* Whatever the input, the state of the parser and the event looked for,   *)
(* each turn of skip and skipUntil that goes on leaves less to read: the   *)
(* loops are bounded by the input.                                         *)
(***************************************************************************)
THEOREM SkipsAdvance == Spec => SkipAdvances
<1>1. ASSUME ParserInv, ParserInv', [Next]_vars
      PROVE  [call # Idle /\ call' # Idle => Unread' < Unread]_vars
  <2>1. SUFFICES ASSUME Next, call # Idle, call' # Idle PROVE Unread' < Unread
    BY <1>1
  <2>2. SkipStep
    BY <2>1 DEF Next, NextCall, Peek, BeginSkip, Reset, SetStreaming, SourceGet, SourcePeek
  <2>3. PICK e \in Event : NextEvent(e) /\ (e \in {"error", "done"} => Return(e))
    BY <2>2 DEF SkipStep
  <2>4. e \notin {"error", "done"}
    BY <2>1, <2>3 DEF Return
  <2>5. src.left \in Nat /\ src'.left \in Nat
    <3>1. SourceOK(src) /\ SourceOK(src')
      BY <1>1 DEF ParserInv, InputOK, SourceOK
    <3>2. QED
      BY <3>1, SourceElim, AheadFacts
  <2>6. CASE next # "none" /\ next' = "none" /\ UNCHANGED src
    BY <2>5, <2>6 DEF Unread
  <2>7. CASE next = "none" /\ next' = "none" /\ NewEvent(e)
    <3>1. src'.left < src.left
      BY <1>1, <2>4, <2>7, NewEventConsumes DEF ParserInv
    <3>2. QED
      BY <2>5, <2>7, <3>1 DEF Unread
  <2>8. QED
    BY <2>3, <2>4, <2>6, <2>7 DEF NextEvent, inputVars
<1>2. QED
  BY <1>1, ParserInvariant, PTL DEF Spec, SkipAdvances

-----------------------------------------------------------------------------
(***************************************************************************)
(* The token.  An event that has a token has the one in the buffer, and    *)
(* the first event of a skip that goes on is the container it skips.       *)
(***************************************************************************)
HasToken == {"string", "number"}

LEMMA ReadTokenTokens ==
  ASSUME NEW kind, kind # "error", NEW left, NEW v, NEW m, ReadToken(kind, left, v, m)
  PROVE  v = "error" \/ (v = kind /\ token' = kind)
BY DEF ReadToken, Outcomes

LEMMA ReadValueTokens ==
  ASSUME NEW r, NEW mem, NEW v, v \in HasToken, NEW m, ReadValue(r, mem, v, m)
  PROVE  token' = v
<1>1. v # "error" /\ v \notin Literal /\ v \notin Container
  BY DEF HasToken, Literal, Container
<1>2. ReadString(r.rest, v, m) \/ ReadNumber(r.rest, v, m)
  BY <1>1 DEF ReadValue, IsMatch
<1>3. QED
  BY <1>1, <1>2, ReadTokenTokens DEF ReadString, ReadNumber

LEMMA NewEventTokens ==
  ASSUME NEW e, e \in HasToken, NewEvent(e)
  PROVE  token' = e
<1>1. e # "error" /\ e # "done" /\ e # "array_end" /\ e # "object_end"
  BY DEF HasToken
<1>2. PICK r, mem : ReadValue(r, mem, e, errmsg')
  <2>1. CASE FirstValue(e)
    BY <1>1, <2>1 DEF FirstValue
  <2>2. CASE InArray(e)
    BY <1>1, <2>2 DEF InArray, Close, Reject
  <2>3. CASE InObject(e)
    <3>1. \A x : ReadMember(x, e) => ReadValue(x, Counted, e, errmsg')
      BY <1>1 DEF ReadMember
    <3>2. QED
      BY <1>1, <2>3, <3>1 DEF InObject, Close, Reject
  <2>4. QED
    BY <1>1, <2>1, <2>2, <2>3 DEF NewEvent, AfterValue, NoFrame, OtherFrame, InvalidState
<1>3. QED
  BY <1>2, ReadValueTokens

SkipShape ==
  /\ call # Idle => event = "none"
  /\ call.first \in {"none", "array", "object"}
  /\ call.first = "none" => call.arr = 0 /\ call.obj = 0

TokenInv ==
  /\ event \in HasToken => token = event
  /\ next \in HasToken => token = next

LEMMA NextEventTokens ==
  ASSUME TokenInv, NEW e, NextEvent(e)
  PROVE  /\ e \in HasToken => token' = e
         /\ next' \in HasToken => token' = next'
<1>1. CASE Latched /\ e = "error" /\ UNCHANGED <<next, token>>
  BY <1>1 DEF TokenInv, HasToken
<1>2. CASE e = next /\ next' = "none" /\ UNCHANGED token
  BY <1>2 DEF TokenInv, HasToken
<1>3. CASE next = "none" /\ NewEvent(e) /\ UNCHANGED next
  BY <1>3, NewEventTokens DEF HasToken
<1>4. QED
  BY <1>1, <1>2, <1>3 DEF NextEvent, inputVars

(* What a turn of skip leaves in its locals, by the event it consumed. *)
LEMMA TallyCounts ==
  ASSUME NEW c \in SkipCall, NEW e \in Event
  PROVE  /\ Tally(c, e).arr = CASE e = "array"                  -> c.arr + 1
                                [] e = "array_end" /\ c.arr > 0 -> c.arr - 1
                                [] OTHER                        -> c.arr
         /\ Tally(c, e).obj = CASE e = "object"                  -> c.obj + 1
                                [] e = "object_end" /\ c.obj > 0 -> c.obj - 1
                                [] OTHER                         -> c.obj
         /\ Tally(c, e).base = c.base
BY DEF Tally, SkipCall

(* The ways a turn of skip ends. *)
Turn(e, c) ==
  \/ e \in {"error", "done"} /\ Return(e)
  \/ /\ e \notin {"error", "done"} /\ (c.arr # 0 \/ c.obj # 0)
     /\ call' = c /\ UNCHANGED event
  \/ /\ e \notin {"error", "done"} /\ c.arr = 0 /\ c.obj = 0
     /\ Return(c.first)
  \/ /\ e \notin {"error", "done"} /\ c.arr = 0 /\ c.obj = 0
     /\ call' = Skipping(c.op, c.target, BaseDepth') /\ UNCHANGED event

LEMMA SkipStepTurns ==
  ASSUME SkipStep
  PROVE  \E e \in Event : NextEvent(e) /\ Turn(e, Tally(call, e))
<1>1. PICK e \in Event :
        /\ NextEvent(e)
        /\ LET c == Tally(call, e) IN
             CASE e \in {"error", "done"} -> Return(e)
               [] e \notin {"error", "done"} /\ (c.arr # 0 \/ c.obj # 0) ->
                    call' = c /\ UNCHANGED event
               [] OTHER ->
                    IF c.op = "skip" \/ c.first = c.target THEN Return(c.first)
                    ELSE /\ call' = Skipping(c.op, c.target, BaseDepth')
                         /\ UNCHANGED event
  BY DEF SkipStep
<1> DEFINE c == Tally(call, e)
<1>2. Turn(e, c)
  <2>1. CASE e \in {"error", "done"}
    BY <1>1, <2>1 DEF Turn
  <2>2. CASE e \notin {"error", "done"} /\ (c.arr # 0 \/ c.obj # 0)
    BY <1>1, <2>2 DEF Turn
  <2>3. CASE e \notin {"error", "done"} /\ ~(c.arr # 0 \/ c.obj # 0)
    BY <1>1, <2>3 DEF Turn
  <2>4. QED
    BY <2>1, <2>2, <2>3
<1>3. QED
  BY <1>1, <1>2

(* A call being made is never the one that stands for none. *)
LEMMA SkipsAreNotIdle ==
  ASSUME NEW op \in {"skip", "skip_until"}, NEW t, NEW b
  PROVE  Skipping(op, t, b) # Idle
BY DEF Skipping, Idle

LEMMA SkippingStarts ==
  ASSUME NEW op, NEW t, NEW b
  PROVE  /\ Skipping(op, t, b).first = "none" /\ Skipping(op, t, b).base = b
         /\ Skipping(op, t, b).arr = 0 /\ Skipping(op, t, b).obj = 0
BY DEF Skipping

LEMMA SkipShapeKept ==
  ASSUME ParserInv, SkipShape, [Next]_vars
  PROVE  SkipShape'
<1> USE DEF SkipShape
<1>1. call \in SkipCall
  BY DEF ParserInv, CallsOK
<1>2. Idle.first = "none" /\ Idle.arr = 0 /\ Idle.obj = 0
  BY SkippingStarts DEF Idle
<1>3. CASE SkipStep
  <2>1. PICK e \in Event : NextEvent(e) /\ Turn(e, Tally(call, e))
    BY <1>3, SkipStepTurns
  <2> DEFINE c == Tally(call, e)
  <2>2. event = "none"
    BY <1>3 DEF SkipStep
  <2>3. c.first = IF call.first = "none" THEN e ELSE call.first
    BY <1>1, TallyFacts
  <2>4. c.arr # 0 \/ c.obj # 0 => call.first # "none" \/ e \in Container
    BY <1>1, TallyCounts DEF Container
  <2> HIDE DEF c
  <2>5. CASE Return(e) \/ Return(c.first)
    BY <1>2, <2>5 DEF Return
  <2>6. CASE call' = c /\ UNCHANGED event /\ (c.arr # 0 \/ c.obj # 0)
    BY <2>2, <2>3, <2>4, <2>6 DEF Container
  <2>7. CASE call' = Skipping(c.op, c.target, BaseDepth') /\ UNCHANGED event
    BY <2>2, <2>7, SkippingStarts
  <2>8. QED
    BY <2>1, <2>5, <2>6, <2>7 DEF Turn, c
<1>4. CASE BeginSkip
  BY <1>4, SkippingStarts DEF BeginSkip
<1>5. CASE NextCall \/ Peek \/ Reset \/ SetStreaming \/ SourceGet \/ SourcePeek
  BY <1>2, <1>5 DEF NextCall, Peek, Reset, SetStreaming, SourceGet, SourcePeek
<1>6. CASE UNCHANGED vars
  BY <1>6 DEF vars
<1>7. QED
  BY <1>3, <1>4, <1>5, <1>6 DEF Next

LEMMA TokenInvKept ==
  ASSUME ParserInv, SkipShape, TokenInv, [Next]_vars
  PROVE  TokenInv'
<1>1. call \in SkipCall
  BY DEF ParserInv, CallsOK
<1>2. CASE NextCall
  BY <1>2, NextEventTokens DEF NextCall, TokenInv
<1>3. CASE Peek
  <2>1. CASE event' = next /\ UNCHANGED parserVars
    BY <2>1 DEF parserVars, TokenInv
  <2>2. ASSUME NEW e \in Event, next' = e, event' = e, e = "error" \/ NewEvent(e)
        PROVE  TokenInv'
    <3>1. e \in HasToken => token' = e
      BY <2>2, NewEventTokens DEF HasToken
    <3>2. QED
      BY <2>2, <3>1 DEF TokenInv
  <2>3. QED
    BY <1>3, <2>1, <2>2 DEF Peek
<1>4. CASE BeginSkip
  BY <1>4 DEF BeginSkip, parserVars, TokenInv, HasToken
<1>5. CASE SkipStep
  <2>1. PICK e \in Event : NextEvent(e) /\ Turn(e, Tally(call, e))
    BY <1>5, SkipStepTurns
  <2> DEFINE c == Tally(call, e)
  <2>2. event = "none"
    BY <1>5 DEF SkipStep, SkipShape
  <2>3. c.first = e \/ c.first \in {"array", "object"}
    BY <1>1, TallyFacts DEF SkipShape
  <2>4. event' \in {e, c.first, "none"}
    BY <2>1, <2>2 DEF Turn, Return
  <2> HIDE DEF c
  <2>5. (e \in HasToken => token' = e) /\ (next' \in HasToken => token' = next')
    BY <2>1, NextEventTokens
  <2>6. QED
    BY <2>3, <2>4, <2>5 DEF TokenInv, HasToken
<1>6. CASE Reset
  BY <1>6 DEF Reset, TokenInv, HasToken
<1>7. CASE SetStreaming \/ SourceGet \/ SourcePeek \/ UNCHANGED vars
  BY <1>7 DEF SetStreaming, SourceGet, SourcePeek, inputVars, vars, parserVars, TokenInv
<1>8. QED
  BY <1>2, <1>3, <1>4, <1>5, <1>6, <1>7 DEF Next

(* The locals of a skip have the shape its loop gives them. *)
LEMMA SkipShapeHolds == Spec => []SkipShape
<1>1. Init => SkipShape
  BY SkippingStarts DEF Init, SkipShape, Idle
<1>2. ParserInv /\ SkipShape /\ [Next]_vars => SkipShape'
  BY SkipShapeKept
<1>3. QED
  BY <1>1, <1>2, ParserInvariant, PTL DEF Spec

(***************************************************************************)
(* The caller of json_next, json_peek or either skip finds the token of    *)
(* the event it was given, whole, in json_get_string's buffer: resets over *)
(* a peek, changes of mode and reads of the source included.               *)
(***************************************************************************)
THEOREM TokensBelongToEvents == Spec => []TokenBelongsToEvent
<1>1. Init => TokenInv
  BY DEF Init, TokenInv, HasToken
<1>2. ParserInv /\ SkipShape /\ TokenInv /\ [Next]_vars => TokenInv'
  BY TokenInvKept
<1>3. TokenInv => TokenBelongsToEvent
  BY DEF TokenInv, TokenBelongsToEvent, HasToken
<1>4. QED
  BY <1>1, <1>2, <1>3, ParserInvariant, SkipShapeHolds, PTL DEF Spec

-----------------------------------------------------------------------------
(***************************************************************************)
(* The end of the input.  Once a read has met it, the source stays there,  *)
(* and DONE, given or buffered, outside streaming mode was given there.    *)
(***************************************************************************)
LEMMA EndStays ==
  ASSUME src.ahead = "eof"
  PROVE  /\ \A r \in NextChar(src) : r.byte = "eof" /\ r.rest.ahead = "eof"
                                     /\ Peeked(src, r).ahead = "eof"
         /\ \A r \in Get(src) : r.rest.ahead = "eof"
         /\ \A s \in Lookahead(src) : s.ahead = "eof"
<1>1. \A r \in NextChar(src) : r.byte = "eof" /\ r.rest.ahead = "eof"
                               /\ Peeked(src, r).ahead = "eof"
  BY DEF NextChar, Peeked, AtEnd
<1>2. Get(src) = NextChar(src)
  BY DEF Get
<1>3. \A s \in Lookahead(src) : s.ahead = "eof"
  BY <1>1, <1>2 DEF Lookahead
<1>4. QED
  BY <1>1, <1>2, <1>3

LEMMA ReadValueNeverDone ==
  ASSUME NEW r, NEW mem, NEW m
  PROVE  ~ReadValue(r, mem, "done", m)
<1>1. SUFFICES ASSUME ReadValue(r, mem, "done", m) PROVE FALSE
  OBVIOUS
<1>2. ReadString(r.rest, "done", m) \/ ReadNumber(r.rest, "done", m)
  BY <1>1 DEF ReadValue, IsMatch, Literal, Container
<1>3. QED
  BY <1>2, ReadTokenTokens DEF ReadString, ReadNumber

(* How nextEvent comes to DONE, and what it leaves of a text that ended. *)
LEMMA NewEventDone ==
  ASSUME NewEvent("done")
  PROVE  /\ AtTop /\ UNCHANGED <<stackVars, started>>
         /\ ~streaming => started /\ src'.ahead = "eof"
         /\ ~started => src'.ahead = "eof"
         /\ src.ahead = "eof" => src'.ahead = "eof"
<1>1. CASE AfterValue("done")
  <2>1. CASE streaming /\ UNCHANGED src /\ UNCHANGED errmsg
    BY <1>1, <2>1 DEF AfterValue, stackVars
  <2>2. ASSUME ~streaming, NEW r \in NextChar(src), src' = Peeked(src, r), r.byte = "eof",
               UNCHANGED errmsg
        PROVE  src'.ahead = "eof" /\ UNCHANGED errmsg
    BY <2>2 DEF Peeked
  <2>3. QED
    BY <1>1, <2>1, <2>2 DEF AfterValue, stackVars
<1>2. ASSUME NEW r, NEW mem PROVE ~ReadValue(r, mem, "done", errmsg')
  BY ReadValueNeverDone
<1>3. CASE FirstValue("done")
  <2>1. PICK r \in NextChar(src) :
          IF r.byte = "eof" /\ streaming
            THEN src' = r.rest /\ UNCHANGED <<stack, stackTop, stackSize, errmsg, started, token>>
            ELSE ReadValue(r, stack, "done", errmsg')
    BY <1>3 DEF FirstValue
  <2>2. r.byte = "eof" /\ streaming /\ src' = r.rest
        /\ UNCHANGED <<stack, stackTop, stackSize, errmsg, started, token>>
    BY <1>2, <2>1
  <2>3. r.rest.ahead = "eof"
    BY <2>2, AheadFacts DEF NextChar, Fresh, AtEnd
  <2>4. QED
    BY <1>3, <2>2, <2>3 DEF FirstValue, stackVars
<1>4. ~NoFrame("done") /\ ~OtherFrame("done") /\ ~InArray("done")
  BY <1>2 DEF NoFrame, OtherFrame, InvalidState, InArray, Close, Reject
<1>5. ~InObject("done")
  <2>1. \A r : ~ReadMember(r, "done")
    BY DEF ReadMember
  <2>2. QED
    BY <1>2, <2>1 DEF InObject, Close, Reject
<1>6. QED
  BY <1>1, <1>3, <1>4, <1>5 DEF NewEvent

(* After DONE, until a reset: nothing is open or latched, and the input is *)
(* at its end unless streaming mode has stopped at the end of a value.     *)
DoneInv ==
  /\ emitted = "done" =>
       /\ AtTop /\ ~Latched
       /\ ~streaming \/ ~started => src.ahead = "eof"
       /\ ~started => streaming
  /\ next = "done" => emitted = "done"

LEMMA NewEventDoneInv ==
  ASSUME ~Latched, NEW e, NewEvent(e), UNCHANGED streaming
  PROVE  emitted' = "done" =>
           /\ e = "done" /\ AtTop' /\ ~Latched'
           /\ ~streaming' \/ ~started' => src'.ahead = "eof"
           /\ ~started' => streaming'
<1>1. SUFFICES ASSUME e = "done" PROVE /\ AtTop' /\ ~Latched'
                                       /\ ~streaming \/ ~started' => src'.ahead = "eof"
                                       /\ ~started' => streaming
  BY DEF NewEvent
<1>2. AtTop /\ UNCHANGED <<stackVars, started>>
      /\ (~streaming => started /\ src'.ahead = "eof") /\ (~started => src'.ahead = "eof")
  BY <1>1, NewEventDone
<1>3. QED
  BY <1>2 DEF stackVars, AtTop, Latched

LEMMA NextEventDoneInv ==
  ASSUME DoneInv, NEW e, NextEvent(e), UNCHANGED streaming
  PROVE  DoneInv' /\ (e = "done" => emitted' = "done")
<1>1. CASE UNCHANGED <<stackVars, src, started, emitted>> /\ next' \in {next, "none"}
           /\ (e = "done" => next = "done")
  BY <1>1 DEF DoneInv, stackVars, AtTop, Latched
<1>2. CASE ~Latched /\ next = "none" /\ next' = "none" /\ NewEvent(e)
  <2>1. emitted' = e
    BY <1>2 DEF NewEvent
  <2>2. QED
    BY <1>2, <2>1, NewEventDoneInv DEF DoneInv
<1>3. QED
  BY <1>1, <1>2 DEF NextEvent, inputVars

LEMMA DoneInvKept ==
  ASSUME Careful = TRUE, DoneInv, [Next]_vars
  PROVE  DoneInv'
<1>1. CASE NextCall \/ SkipStep
  BY <1>1, NextEventDoneInv DEF NextCall, SkipStep
<1>2. CASE Peek
  <2>1. CASE UNCHANGED <<parserVars, emitted>>
    BY <2>1 DEF parserVars, stackVars, DoneInv, AtTop, Latched
  <2>2. ASSUME NEW e \in Event, ~Latched, next = "none", NewEvent(e), next' = e, UNCHANGED streaming
        PROVE  DoneInv'
    <3>1. emitted' = e
      BY <2>2 DEF NewEvent
    <3>2. QED
      BY <2>2, <3>1, NewEventDoneInv DEF DoneInv
  <2>3. CASE Latched /\ next' = "error" /\ UNCHANGED <<stackVars, emitted>>
    BY <2>3 DEF DoneInv, stackVars, Latched
  <2>4. QED
    BY <1>2, <2>1, <2>2, <2>3 DEF Peek
<1>3. CASE BeginSkip
  BY <1>3 DEF BeginSkip, parserVars, stackVars, DoneInv, AtTop, Latched
<1>4. CASE Reset
  BY <1>4 DEF Reset, DoneInv
<1>5. CASE SetStreaming
  BY <1>5 DEF SetStreaming, DoneInv
<1>6. CASE SourceGet \/ SourcePeek
  BY <1>6, EndStays DEF SourceGet, SourcePeek, stackVars, DoneInv, AtTop, Latched
<1>7. CASE UNCHANGED vars
  BY <1>7 DEF vars, parserVars, stackVars, DoneInv, AtTop, Latched
<1>8. QED
  BY <1>1, <1>2, <1>3, <1>4, <1>5, <1>6, <1>7 DEF Next

LEMMA DoneInvHolds ==
  ASSUME Careful = TRUE
  PROVE  Spec => []DoneInv
<1>1. Init => DoneInv
  BY DEF Init, DoneInv
<1>2. DoneInv /\ [Next]_vars => DoneInv'
  BY DoneInvKept
<1>3. QED
  BY <1>1, <1>2, PTL DEF Spec

(***************************************************************************)
(* A caller outside streaming mode who is told DONE, by whichever call and *)
(* however long it was buffered, has had the whole input: nothing but      *)
(* white space was left, and nothing has been read past it.                *)
(***************************************************************************)
THEOREM DoneIsTheEnd ==
  ASSUME Careful = TRUE
  PROVE  Spec => DoneMeansExhausted
<1> DEFINE Told == event' = "done" /\ event # "done" /\ ~streaming
           Ended == src'.ahead = "eof"
<1>1. ASSUME ParserInv, SkipShape, DoneInv, DoneInv', [Next]_vars, Told
      PROVE  Ended
  <2>1. ASSUME emitted' = "done", UNCHANGED streaming
        PROVE  Ended
    BY <1>1, <2>1 DEF DoneInv
  <2>2. CASE NextCall
    <3>1. NextEvent("done") /\ UNCHANGED streaming
      BY <1>1, <2>2 DEF NextCall
    <3>2. QED
      BY <1>1, <2>1, <3>1, NextEventDoneInv
  <2>3. CASE Peek
    <3>1. CASE next = "done" /\ UNCHANGED <<parserVars, emitted>>
      BY <1>1, <2>1, <3>1 DEF parserVars, DoneInv
    <3>2. CASE NewEvent("done") /\ UNCHANGED streaming
      BY <2>1, <3>2 DEF NewEvent
    <3>3. QED
      BY <1>1, <2>3, <3>1, <3>2 DEF Peek
  <2>4. CASE SkipStep
    <3>1. PICK e \in Event : NextEvent(e) /\ Turn(e, Tally(call, e))
      BY <2>4, SkipStepTurns
    <3>2. event' \in {e, Tally(call, e).first}
      BY <1>1, <3>1 DEF Turn, Return
    <3>3. Tally(call, e).first = e \/ Tally(call, e).first \in {"array", "object"}
      BY <1>1, TallyFacts DEF SkipShape, ParserInv, CallsOK
    <3>4. e = "done"
      BY <1>1, <3>2, <3>3
    <3>5. QED
      BY <1>1, <2>1, <2>4, <3>1, <3>4, NextEventDoneInv DEF SkipStep
  <2>5. CASE BeginSkip \/ Reset
    BY <1>1, <2>5 DEF BeginSkip, Reset
  <2>6. CASE SetStreaming \/ SourceGet \/ SourcePeek \/ UNCHANGED vars
    BY <1>1, <2>6 DEF SetStreaming, SourceGet, SourcePeek, vars
  <2>7. QED
    BY <1>1, <2>2, <2>3, <2>4, <2>5, <2>6 DEF Next
<1> HIDE DEF Told, Ended
<1>2. ParserInv /\ SkipShape /\ DoneInv /\ DoneInv' /\ [Next]_vars => [Told => Ended]_vars
  BY <1>1
<1>3. Spec => [][Told => Ended]_vars
  BY <1>2, ParserInvariant, SkipShapeHolds, DoneInvHolds, PTL DEF Spec
<1>4. QED
  BY <1>3 DEF DoneMeansExhausted, Told, Ended

-----------------------------------------------------------------------------
(***************************************************************************)
(* What an event other than ERROR does to the containers.  A value enters  *)
(* the block it is given, by a push if it is a container; where it may     *)
(* come, and where a container may close, is what the count of the         *)
(* innermost frame says.                                                   *)
(***************************************************************************)
Enters(mem, e) ==
  /\ e \in Value /\ started' = TRUE /\ errmsg' = "none"
  /\ e \in Container => Push(mem, e, "none")
  /\ e \notin Container => Keep(mem)

Leaves(t, e) ==
  /\ e = IF t = "array" THEN "array_end" ELSE "object_end"
  /\ Pop(t, "none") /\ errmsg' = "none"
  /\ UNCHANGED started

EventShape(e) ==
  \/ e = "done" /\ AtTop /\ UNCHANGED <<stackVars, started>>
  \/ AtTop /\ ~started /\ Enters(stack, e)
  \/ HasFrame /\ CountLeft /\ CurrentFrame.type = "array" /\ Enters(Counted, e)
  \/ /\ HasFrame /\ CountLeft /\ CurrentFrame.type = "object" /\ Enters(Counted, e)
     /\ CurrentFrame.count % 2 = 1 \/ (CurrentFrame.count % 2 = 0 /\ e = "string")
  \/ HasFrame /\ CurrentFrame.type = "array" /\ Leaves("array", e)
  \/ /\ HasFrame /\ CurrentFrame.type = "object" /\ CurrentFrame.count % 2 = 0
     /\ Leaves("object", e)

LEMMA ReadValueEnters ==
  ASSUME NEW r, NEW mem, NEW v, v # "error", ReadValue(r, mem, v, errmsg')
  PROVE  Enters(mem, v)
<1>1. ASSUME NEW t \in Container, Push(mem, t, errmsg'), v = IF errmsg' = "none" THEN t ELSE "error"
      PROVE  v = t /\ errmsg' = "none" /\ Push(mem, t, "none")
  BY <1>1
<1>2. ASSUME Keep(mem), ReadString(r.rest, v, errmsg') PROVE v = "string" /\ errmsg' = "none"
  BY <1>2, ReadTokenTokens, TokenOutcome DEF ReadString
<1>3. ASSUME Keep(mem), ReadNumber(r.rest, v, errmsg') PROVE v = "number" /\ errmsg' = "none"
  BY <1>3, ReadTokenTokens, TokenOutcome DEF ReadNumber
<1>4. ASSUME Keep(mem), IsMatch(r.rest, v, errmsg') PROVE v \in Literal /\ errmsg' = "none"
  BY <1>4 DEF IsMatch
<1>5. \/ v \in Container /\ errmsg' = "none" /\ Push(mem, v, "none")
      \/ v \in {"string", "number"} \union Literal /\ errmsg' = "none" /\ Keep(mem)
  BY <1>1, <1>2, <1>3, <1>4 DEF ReadValue
<1>6. started' = TRUE
  BY DEF ReadValue
<1>7. QED
  BY <1>5, <1>6 DEF Enters, Value, Container, Literal

LEMMA CloseLeaves ==
  ASSUME NEW t, NEW rest, NEW e, e # "error", Close(t, rest, e)
  PROVE  Leaves(t, e)
<1>1. PICK m \in Message :
             /\ Pop(t, m)
             /\ errmsg' = m
             /\ e = IF m # "none" THEN "error"
                    ELSE IF t = "array" THEN "array_end" ELSE "object_end"
  BY DEF Close
<1>2. m = "none"
  BY <1>1
<1>3. QED
  BY <1>1, <1>2 DEF Leaves, Close

LEMMA NewEventShape ==
  ASSUME NEW e, e # "error", NewEvent(e)
  PROVE  EventShape(e)
<1>1. CASE AfterValue(e)
  BY <1>1 DEF AfterValue, stackVars, EventShape
<1>2. CASE FirstValue(e)
  BY <1>2, ReadValueEnters DEF FirstValue, stackVars, EventShape
<1>3. ~NoFrame(e) /\ ~OtherFrame(e)
  BY DEF NoFrame, OtherFrame, InvalidState
<1>4. CASE InArray(e)
  <2>1. HasFrame /\ CurrentFrame.type = "array" /\ CountLeft
    BY <1>4 DEF InArray, NewEvent
  <2>2. \/ \E rest : Close("array", rest, e)
        \/ \E r : ReadValue(r, Counted, e, errmsg')
    BY <1>4 DEF InArray, Reject
  <2>3. QED
    BY <2>1, <2>2, CloseLeaves, ReadValueEnters DEF EventShape
<1>5. CASE InObject(e)
  <2>1. HasFrame /\ CurrentFrame.type = "object" /\ CountLeft
    BY <1>5 DEF InObject, NewEvent
  <2>2. \/ CurrentFrame.count % 2 = 0 /\ \E rest : Close("object", rest, e)
        \/ (CurrentFrame.count = 0 \/ CurrentFrame.count % 2 = 0) /\ \E r : ReadMember(r, e)
        \/ CurrentFrame.count % 2 = 1 /\ \E r : ReadValue(r, Counted, e, errmsg')
    BY <1>5 DEF InObject, Reject
  <2>3. \A r : ReadMember(r, e) => e = "string" /\ ReadValue(r, Counted, e, errmsg')
    BY DEF ReadMember
  <2>4. CurrentFrame.count = 0 => CurrentFrame.count % 2 = 0
    OBVIOUS
  <2>5. CASE CurrentFrame.count % 2 = 0 /\ \E rest : Close("object", rest, e)
    BY <2>1, <2>5, CloseLeaves DEF EventShape
  <2>6. CASE CurrentFrame.count % 2 = 0 /\ \E r : ReadMember(r, e)
    BY <2>1, <2>3, <2>6, ReadValueEnters DEF EventShape
  <2>7. CASE CurrentFrame.count % 2 = 1 /\ \E r : ReadValue(r, Counted, e, errmsg')
    BY <2>1, <2>7, ReadValueEnters DEF EventShape
  <2>8. QED
    BY <2>2, <2>4, <2>5, <2>6, <2>7
<1>6. QED
  BY <1>1, <1>2, <1>3, <1>4, <1>5 DEF NewEvent

(***************************************************************************)
(* The same on the frames, which keep their types but for the one opened   *)
(* or closed.                                                              *)
(***************************************************************************)
LEMMA EntersBlock ==
  ASSUME StackInv, ~Latched, NEW mem, NEW e, Enters(mem, e),
         mem = stack \/ (HasFrame /\ mem = Counted)
  PROVE  /\ Block(mem)
         /\ \A i \in 0 .. Depth - 1 : mem[i].type = stack[i].type
<1>1. CASE mem = stack
  BY <1>1, StackIsBlock DEF Latched
<1>2. CASE HasFrame /\ mem = Counted
  <2>1. Block(Counted)
    BY <1>2, StackIsBlock DEF Latched
  <2>2. ASSUME NEW i \in 0 .. Depth - 1 PROVE Counted[i].type = stack[i].type
    <3>1. i \in 0 .. stackSize - 1
      BY TopInsideBlock DEF Latched, StackInv, StackTypeOK
    <3>2. CASE i = stackTop
      BY <1>2, <3>2, CountedFacts DEF Latched, CurrentFrame
    <3>3. CASE i # stackTop
      BY <1>2, <3>1, <3>3, CountedFacts DEF Latched
    <3>4. QED
      BY <3>2, <3>3
  <2>3. QED
    BY <1>2, <2>1, <2>2
<1>3. QED
  BY <1>1, <1>2

LEMMA EntersEffect ==
  ASSUME StackInv, StackInv', ~Latched, NEW mem, Block(mem), NEW e, Enters(mem, e)
  PROVE  /\ ~Latched' /\ Depth \in Nat
         /\ e \in Container =>
              /\ Depth' = Depth + 1 /\ OpenDepth' = Depth + 1
              /\ stack'[Depth] = NewFrame(e)
              /\ \A i \in 0 .. Depth - 1 : stack'[i] = mem[i]
         /\ e \notin Container =>
              Depth' = Depth /\ OpenDepth' = Depth /\ stack' = mem
<1>1. ~Latched' /\ errmsg = "none" /\ errmsg' = "none"
  BY DEF Enters, Latched
<1>2. Depth \in Nat /\ Depth' = OpenDepth'
  <2>1. Depth \in Nat
    BY <1>1, TopInsideBlock DEF StackInv, StackTypeOK
  <2>2. ~OffTheEnd'
    BY <1>1 DEF StackInv, OpenFramesWritten
  <2>3. QED
    BY <2>1, <2>2 DEF OpenDepth
<1>3. CASE e \in Container
  BY <1>1, <1>2, <1>3, PushEffect DEF Enters
<1>4. CASE e \notin Container
  BY <1>1, <1>2, <1>4 DEF Enters, Keep, Depth
<1>5. QED
  BY <1>1, <1>2, <1>3, <1>4

FramesShape(e) ==
  /\ ~Latched' /\ Depth \in Nat /\ Depth' \in Nat
  /\ e \in Container => Depth' = Depth + 1 /\ stack'[Depth].type = e
  /\ e \in Closing =>
       /\ Depth = Depth' + 1
       /\ stack[Depth'].type = IF e = "array_end" THEN "array" ELSE "object"
  /\ e \notin Container \union Closing => Depth' = Depth
  /\ \A i \in 0 .. Depth - 1 : i < Depth' => stack'[i].type = stack[i].type

LEMMA NewEventFrames ==
  ASSUME StackInv, StackInv', ~Latched, NEW e, e # "error", NewEvent(e)
  PROVE  FramesShape(e)
<1>0. /\ \A x \in Value : x \notin Closing
      /\ {"array_end", "object_end"} = Closing /\ "done" \notin Container \union Closing
      /\ \A x \in Closing : x \notin Container
  BY DEF Value, Closing, Container, Literal
<1>1. CASE e = "done" /\ AtTop /\ UNCHANGED stackVars
  <2>1. Depth \in Nat /\ UNCHANGED Depth
    BY <1>1, TopInsideBlock DEF Latched, stackVars, Depth
  <2>2. QED
    BY <1>0, <1>1, <2>1 DEF FramesShape, stackVars, Latched
<1>2. ASSUME NEW mem, mem = stack \/ (HasFrame /\ mem = Counted), Enters(mem, e)
      PROVE  FramesShape(e)
  <2>1. Block(mem) /\ \A i \in 0 .. Depth - 1 : mem[i].type = stack[i].type
    BY <1>2, EntersBlock
  <2>2. e \notin Closing
    BY <1>0, <1>2 DEF Enters
  <2>3. ~Latched' /\ Depth \in Nat
    BY <1>2, <2>1, EntersEffect
  <2>4. CASE e \in Container
    <3>1. /\ Depth' = Depth + 1 /\ stack'[Depth] = NewFrame(e)
          /\ \A i \in 0 .. Depth - 1 : stack'[i] = mem[i]
      BY <1>2, <2>1, <2>4, EntersEffect
    <3>2. stack'[Depth].type = e
      BY <3>1 DEF NewFrame
    <3>3. \A i \in 0 .. Depth - 1 : stack'[i].type = stack[i].type
      BY <2>1, <3>1
    <3>4. QED
      BY <2>2, <2>3, <2>4, <3>1, <3>2, <3>3 DEF FramesShape
  <2>5. CASE e \notin Container
    BY <1>2, <2>1, <2>2, <2>3, <2>5, EntersEffect DEF FramesShape
  <2>6. QED
    BY <2>4, <2>5
<1>3. ASSUME NEW t \in Container, Leaves(t, e)
      PROVE  FramesShape(e)
  <2>1. /\ HasFrame /\ CurrentFrame.type = t /\ stackTop \in Nat /\ Depth = stackTop + 1
        /\ Depth' = stackTop /\ UNCHANGED stack
    BY <1>3, PopEffect DEF Leaves, Latched
  <2>2. e \in Closing /\ t = IF e = "array_end" THEN "array" ELSE "object"
    BY <1>0, <1>3 DEF Leaves, Container
  <2>3. ~Latched'
    BY <1>3 DEF Leaves, Latched
  <2>4. QED
    BY <1>0, <2>1, <2>2, <2>3 DEF FramesShape, CurrentFrame
<1>4. EventShape(e)
  BY NewEventShape
<1>5. QED
  BY <1>1, <1>2, <1>3, <1>4 DEF EventShape, Container

-----------------------------------------------------------------------------
(***************************************************************************)
(* The frames from b to below n that are containers of type t.             *)
(***************************************************************************)
Within(mem, b, n, t) == {i \in b .. n - 1 : mem[i].type = t}

LEMMA WithinFacts ==
  ASSUME NEW mem, NEW b \in Int, NEW n \in Int, NEW t
  PROVE  /\ IsFiniteSet(Within(mem, b, n, t)) /\ Cardinality(Within(mem, b, n, t)) \in Nat
         /\ (Cardinality(Within(mem, b, n, t)) = 0) <=> (Within(mem, b, n, t) = {})
         /\ n <= b => Within(mem, b, n, t) = {} /\ Cardinality(Within(mem, b, n, t)) = 0
<1>1. IsFiniteSet(b .. n - 1)
  BY FS_Interval
<1>2. IsFiniteSet(Within(mem, b, n, t))
  BY <1>1, FS_Subset DEF Within
<1>3. n <= b => Within(mem, b, n, t) = {}
  BY DEF Within
<1>4. QED
  BY <1>2, <1>3, FS_EmptySet, FS_CardinalityType

LEMMA WithinSame ==
  ASSUME NEW mem, NEW mem2, NEW b \in Int, NEW n \in Int, NEW t,
         \A i \in b .. n - 1 : mem2[i].type = mem[i].type
  PROVE  Within(mem2, b, n, t) = Within(mem, b, n, t)
BY DEF Within

LEMMA WithinOneMore ==
  ASSUME NEW mem, NEW mem2, NEW b \in Int, NEW n \in Int, b <= n, NEW m, m = n + 1, NEW t,
         \A i \in b .. n - 1 : mem2[i].type = mem[i].type
  PROVE  Cardinality(Within(mem2, b, m, t))
           = Cardinality(Within(mem, b, n, t)) + (IF mem2[n].type = t THEN 1 ELSE 0)
<1> DEFINE W == Within(mem, b, n, t)
           V == Within(mem2, b, m, t)
<1>1. \A i \in b .. n : i = n \/ i \in b .. n - 1
  OBVIOUS
<1>2. V = IF mem2[n].type = t THEN W \union {n} ELSE W
  BY <1>1 DEF Within
<1>3. n \notin W
  BY DEF Within
<1>4. IsFiniteSet(W) /\ Cardinality(W) \in Nat
  BY WithinFacts
<1> HIDE DEF W, V
<1>5. CASE mem2[n].type = t
  BY <1>2, <1>3, <1>4, <1>5, FS_AddElement DEF W, V
<1>6. CASE mem2[n].type # t
  BY <1>2, <1>4, <1>6 DEF W, V
<1>7. QED
  BY <1>5, <1>6

(***************************************************************************)
(* skip counts the arrays and the objects it is inside of separately, by   *)
(* their events; the invariant ties the two counts to the frames above the *)
(* depth it started from.  A container that is buffered has its frame on   *)
(* the stack already, which is what the depth a skip starts from allows    *)
(* for; unless a reset has emptied the stack since, when the skip starts   *)
(* from below zero and owes one end that no event can pay.                 *)
(***************************************************************************)
CountsWithin(arr, obj, base) ==
  /\ arr = Cardinality(Within(stack, base, Depth, "array"))
  /\ obj = Cardinality(Within(stack, base, Depth, "object"))

Owed(c, t) == IF c.base < 0 /\ c.first = t THEN 1 ELSE 0
Floor(c) == IF c.base < 0 THEN 0 ELSE c.base
Tallied(c) == CountsWithin(c.arr - Owed(c, "array"), c.obj - Owed(c, "object"), Floor(c))

BufferedInv ==
  next \in Container => ~Latched /\ (Depth = 0 \/ (Depth > 0 /\ stack[Depth - 1].type = next))

BesideInv ==
  /\ call # Idle /\ call.first = "none" => call.base = BaseDepth
  /\ call # Idle /\ call.first # "none" =>
       /\ ~Latched /\ next = "none"
       /\ -1 <= call.base /\ call.base < Depth /\ (call.base < 0 => call.first \in Container)
       /\ Tallied(call)

SkipInv == BufferedInv /\ BesideInv

LEMMA WithinClosed ==
  ASSUME NEW b \in Int, NEW n \in Int, b <= n, Depth = n + 1,
         \A i \in b .. n - 1 : stack[i].type = stack'[i].type
  PROVE  \A t : Cardinality(Within(stack, b, Depth, t))
                 = Cardinality(Within(stack', b, n, t)) + (IF stack[n].type = t THEN 1 ELSE 0)
BY WithinOneMore

(* The counts of skip keep up with the frames a new event leaves. *)
LEMMA TallyKeepsCounts ==
  ASSUME NEW c \in SkipCall, NEW e \in Event \ {"error", "done"}, FramesShape(e),
         NEW b \in Nat, b <= Depth, NEW x \in Nat, NEW y \in Nat,
         CountsWithin(c.arr - x, c.obj - y, b),
         e \in Closing => b < Depth
  PROVE  CountsWithin(Tally(c, e).arr - x, Tally(c, e).obj - y, b)'
<1> DEFINE Old(t) == Cardinality(Within(stack, b, Depth, t))
           New(t) == Cardinality(Within(stack', b, Depth', t))
<1>1. b \in Int /\ Depth \in Int /\ Depth' \in Int
  BY DEF FramesShape
<1>2. \A t : Old(t) \in Nat /\ New(t) \in Nat
  BY <1>1, WithinFacts
<1>0. c.arr \in Nat /\ c.obj \in Nat /\ c.arr = Old("array") + x /\ c.obj = Old("object") + y
  <2>1. c.arr \in Nat /\ c.obj \in Nat
    BY DEF SkipCall
  <2>2. c.arr - x = Old("array") /\ c.obj - y = Old("object")
    BY DEF CountsWithin
  <2>3. QED
    BY <1>2, <2>1, <2>2
<1> SUFFICES /\ Tally(c, e).arr = New("array") + x
             /\ Tally(c, e).obj = New("object") + y
  BY <1>2 DEF CountsWithin
<1> HIDE DEF Old, New
<1>3. "array" \in Container /\ "object" \in Container /\ "array" # "object"
      /\ {"array_end", "object_end"} = Closing /\ {"array", "object"} = Container
      /\ "array_end" # "object_end" /\ "array_end" \notin Container /\ "object_end" \notin Container
  BY DEF Container, Closing
<1>4. CASE e \in Container
  <2>1. Depth' = Depth + 1 /\ stack'[Depth].type = e
        /\ \A i \in b .. Depth - 1 : stack'[i].type = stack[i].type
    BY <1>1, <1>4 DEF FramesShape
  <2>2. \A t : New(t) = Old(t) + (IF e = t THEN 1 ELSE 0)
    BY <1>1, <2>1, WithinOneMore DEF Old, New
  <2>3. QED
    BY <1>0, <1>2, <1>3, <1>4, <2>2, TallyCounts
<1>5. CASE e \in Closing
  <2>0. PICK n \in Nat : n = Depth'
    BY DEF FramesShape
  <2>1. /\ Depth = n + 1
        /\ stack[n].type = IF e = "array_end" THEN "array" ELSE "object"
    BY <1>5, <2>0 DEF FramesShape
  <2>2. b <= n /\ \A i \in b .. n - 1 : stack[i].type = stack'[i].type
    <3>1. \A i \in 0 .. Depth - 1 : i < n => stack'[i].type = stack[i].type
      BY <2>0 DEF FramesShape
    <3>2. b <= n /\ \A i \in b .. n - 1 : i \in 0 .. Depth - 1 /\ i < n
      BY <1>5, <2>1
    <3>3. QED
      BY <3>1, <3>2
  <2>3. \A t : Old(t) = New(t) + (IF stack[n].type = t THEN 1 ELSE 0)
    <3>1. \A t : Cardinality(Within(stack, b, Depth, t))
                   = Cardinality(Within(stack', b, n, t)) + (IF stack[n].type = t THEN 1 ELSE 0)
      BY <2>1, <2>2, WithinClosed
    <3>2. QED
      BY <2>0, <3>1 DEF Old, New
  <2>4. QED
    BY <1>0, <1>2, <1>3, <1>5, <2>1, <2>3, TallyCounts
<1>6. CASE e \notin Container \union Closing
  <2>1. Depth' = Depth /\ \A i \in b .. Depth - 1 : stack'[i].type = stack[i].type
    BY <1>1, <1>6 DEF FramesShape
  <2>2. \A t : New(t) = Old(t)
    BY <1>1, <2>1, WithinSame DEF Old, New
  <2>3. QED
    BY <1>0, <1>3, <1>6, <2>2, TallyCounts
<1>7. QED
  BY <1>4, <1>5, <1>6

LEMMA CountsLater ==
  ASSUME NEW c, NEW x, NEW y, NEW b,
         b = Floor(c), x = Owed(c, "array"), y = Owed(c, "object"),
         CountsWithin(c.arr - x, c.obj - y, b)'
  PROVE  Tallied(c)'
BY DEF Tallied, CountsWithin

LEMMA OwedCases ==
  ASSUME NEW c \in SkipCall, NEW t
  PROVE  /\ c.base \in Int /\ Floor(c) \in Nat /\ Owed(c, t) \in Nat
         /\ c.base >= 0 => Floor(c) = c.base /\ Owed(c, t) = 0
         /\ c.base < 0 => Floor(c) = 0 /\ Owed(c, t) = (IF c.first = t THEN 1 ELSE 0)
BY DEF SkipCall, Floor, Owed

(* What holds after a turn of skip that was given neither ERROR nor DONE,  *)
(* of its locals c and the stack the turn left.                            *)
AfterTurn(c) ==
  /\ ~Latched /\ next = "none" /\ Depth \in Nat
  /\ -1 <= c.base /\ (c.base < 0 => c.first \in Container)
  /\ Tallied(c)
  /\ IF c.first \in Closing THEN Depth = c.base - 1 ELSE c.base <= Depth

LEMMA WithinTop ==
  ASSUME NEW b \in Int, Depth = b + 1
  PROVE  \A t : Cardinality(Within(stack, b, Depth, t)) = IF stack[b].type = t THEN 1 ELSE 0
<1>1. \A t : Cardinality(Within(stack, b, Depth, t))
              = Cardinality(Within(stack, b, b, t)) + (IF stack[b].type = t THEN 1 ELSE 0)
  BY WithinOneMore
<1>2. \A t : Cardinality(Within(stack, b, b, t)) = 0
  BY WithinFacts
<1>3. QED
  BY <1>1, <1>2

LEMMA BaseDepthCases ==
  /\ next \in Container => BaseDepth = Depth - 1
  /\ next \in Closing => BaseDepth = Depth + 1
  /\ next \notin Container \union Closing => BaseDepth = Depth
BY DEF BaseDepth, Container, Closing

(* A turn given the event a peek had buffered. *)
LEMMA BufferedTurn ==
  ASSUME StackInv, SkipInv, call \in SkipCall, call # Idle, SkipShape,
         next \in Event \ {"error", "done"}, ~Latched, next' = "none", UNCHANGED stackVars,
         NEW d \in SkipCall, d = Tally(call, next)
  PROVE  AfterTurn(d)'
<1>1. call.first = "none" /\ call.arr = 0 /\ call.obj = 0 /\ call.base = BaseDepth
  <2>1. next # "none"
    BY DEF Event, Value, Closing, Literal
  <2>2. QED
    BY <2>1 DEF SkipInv, BesideInv, SkipShape
<1>2. Depth \in Nat /\ Depth' = Depth /\ stack' = stack /\ ~Latched'
  BY TopInsideBlock DEF stackVars, Latched, StackInv, StackTypeOK, Depth
<1>3. d.first = next /\ d.base = BaseDepth
  BY <1>1, TallyFacts, TallyCounts
<1>4. d.arr = IF next = "array" THEN 1 ELSE 0
  BY <1>1, TallyCounts
<1>5. d.obj = IF next = "object" THEN 1 ELSE 0
  BY <1>1, TallyCounts
<1>6. PICK b \in Int : b = BaseDepth
  BY BaseDepthIsInteger
<1>7. CASE next \in Container
  <2>1. b = Depth - 1 /\ (Depth = 0 \/ (Depth > 0 /\ stack[Depth - 1].type = next))
    <3>1. Depth = 0 \/ (Depth > 0 /\ stack[Depth - 1].type = next)
      BY <1>7 DEF SkipInv, BufferedInv
    <3>2. BaseDepth = Depth - 1
      BY <1>7, BaseDepthCases
    <3>3. QED
      BY <1>6, <3>1, <3>2
  <2>2. ASSUME Depth > 0 PROVE Tallied(d)'
    <3>1. b >= 0 /\ Depth = b + 1 /\ stack[b].type = next
      BY <1>2, <2>1, <2>2
    <3>2. \A t : Cardinality(Within(stack, b, Depth, t)) = IF next = t THEN 1 ELSE 0
      BY <3>1, WithinTop
    <3>3. Floor(d) = b /\ Owed(d, "array") = 0 /\ Owed(d, "object") = 0
      BY <1>3, <1>6, <3>1, OwedCases
    <3>4. CountsWithin(d.arr - 0, d.obj - 0, b)'
      BY <1>2, <1>4, <1>5, <3>2 DEF CountsWithin
    <3>5. QED
      BY <3>3, <3>4, CountsLater, Zenon
  <2>3. ASSUME Depth = 0 PROVE Tallied(d)'
    <3>1. d.base < 0 /\ d.first = next
      BY <1>3, <1>6, <2>1, <2>3
    <3>2. /\ Floor(d) = 0
          /\ Owed(d, "array") = IF next = "array" THEN 1 ELSE 0
          /\ Owed(d, "object") = IF next = "object" THEN 1 ELSE 0
      BY <3>1, OwedCases
    <3>3. \A t : Cardinality(Within(stack, 0, Depth, t)) = 0
      BY <2>3, WithinFacts
    <3>4. PICK x \in Nat, y \in Nat : /\ x = Owed(d, "array") /\ y = Owed(d, "object")
                                    /\ d.arr = x /\ d.obj = y
      BY <1>4, <1>5, <3>2
    <3>5. d.arr - x = 0 /\ d.obj - y = 0
      BY <3>4
    <3>6. CountsWithin(d.arr - x, d.obj - y, 0)'
      BY <1>2, <3>3, <3>5 DEF CountsWithin
    <3>7. QED
      BY <3>2, <3>4, <3>6, CountsLater, Zenon
  <2>4. d.first \notin Closing /\ d.first \in Container
    BY <1>3, <1>7 DEF Container, Closing
  <2>5. Tallied(d)'
    BY <1>2, <1>3, <2>2, <2>3
  <2>6. -1 <= d.base /\ d.base <= Depth
    BY <1>2, <1>3, <1>6, <2>1
  <2>7. QED
    BY <1>2, <2>4, <2>5, <2>6 DEF AfterTurn
<1>8. CASE next \notin Container
  <2>1. Depth <= b /\ 0 <= b /\ (IF next \in Closing THEN b = Depth + 1 ELSE b = Depth)
    BY <1>2, <1>6, <1>8, BaseDepthCases
  <2>2. d.arr = 0 /\ d.obj = 0
    BY <1>4, <1>5, <1>8 DEF Container
  <2>3. \A t : Cardinality(Within(stack, b, Depth, t)) = 0
    BY <1>2, <2>1, WithinFacts
  <2>4. Floor(d) = b /\ Owed(d, "array") = 0 /\ Owed(d, "object") = 0
    BY <1>3, <1>6, <2>1, OwedCases
  <2>5. Tallied(d)'
    BY <1>2, <2>2, <2>3, <2>4 DEF Tallied, CountsWithin
  <2>6. QED
    BY <1>2, <1>3, <1>6, <2>1, <2>5 DEF AfterTurn
<1>9. QED
  BY <1>7, <1>8

LEMMA OneBelow ==
  ASSUME NEW b \in Int, NEW n \in Nat, b = n + 1
  PROVE  n = b - 1 /\ n <= b /\ b >= 0 /\ -1 <= b /\ ~(b < 0)
OBVIOUS

(* A turn for which nextEvent made an event. *)
LEMMA FreshTurn ==
  ASSUME StackInv, StackInv', SkipInv, call \in SkipCall, call # Idle, SkipShape,
         NEW e \in Event \ {"error", "done"}, ~Latched, next = "none", next' = "none", NewEvent(e),
         NEW d \in SkipCall, d = Tally(call, e)
  PROVE  AfterTurn(d)'
<1>1. FramesShape(e)
  BY NewEventFrames
<1>2. ~Latched' /\ Depth \in Nat /\ Depth' \in Nat
  BY <1>1 DEF FramesShape
<1>3. PICK k \in Int : k = call.base
  BY DEF SkipCall
<1>4. d.base = k /\ d.first = IF call.first = "none" THEN e ELSE call.first
  BY <1>3, TallyFacts, TallyCounts
<1>5. "none" \notin Container \union Closing
  BY DEF Container, Closing
<1>6. PICK b \in Nat, x \in Nat, y \in Nat :
        b = Floor(d) /\ x = Owed(d, "array") /\ y = Owed(d, "object")
  BY OwedCases
<1>7. /\ k >= 0 => b = k /\ x = 0 /\ y = 0
      /\ k < 0 => b = 0
  BY <1>4, <1>6, OwedCases
<1>8. call.first = "none" => k = Depth /\ call.arr = 0 /\ call.obj = 0
  BY <1>3, <1>5 DEF SkipInv, BesideInv, SkipShape, BaseDepth
<1>9. call.first # "none" =>
        -1 <= k /\ k < Depth /\ (k < 0 => call.first \in Container) /\ Tallied(call)
  BY <1>3 DEF SkipInv, BesideInv
<1>10. b <= Depth /\ CountsWithin(call.arr - x, call.obj - y, b)
  <2>1. CASE call.first = "none"
    <3>1. b = Depth /\ x = 0 /\ y = 0 /\ call.arr = 0 /\ call.obj = 0
      BY <1>2, <1>7, <1>8, <2>1
    <3>2. \A t : Cardinality(Within(stack, b, Depth, t)) = 0
      BY <3>1, WithinFacts
    <3>3. QED
      BY <1>2, <3>1, <3>2 DEF CountsWithin
  <2>2. CASE call.first # "none"
    <3>1. d.first = call.first /\ d.base = call.base
      BY <1>3, <1>4, <2>2
    <3>2. b = Floor(call) /\ x = Owed(call, "array") /\ y = Owed(call, "object")
      BY <1>6, <3>1 DEF Floor, Owed
    <3>3. b <= Depth
      BY <1>2, <1>7, <1>9, <2>2
    <3>4. QED
      BY <1>9, <2>2, <3>2, <3>3 DEF Tallied
  <2>3. QED
    BY <2>1, <2>2
<1>11. CASE e \in Closing /\ call.first = "none"
  <2>1. PICK n \in Nat : n = Depth' /\ k = n + 1
    <3>1. k = Depth /\ Depth = Depth' + 1
      BY <1>1, <1>8, <1>11 DEF FramesShape
    <3>2. QED
      BY <1>2, <3>1
  <2>2. d.arr = 0 /\ d.obj = 0
    BY <1>11, TallyCounts DEF SkipShape, Closing
  <2>3. b = k /\ x = 0 /\ y = 0 /\ n <= b
    <3>1. k >= 0 /\ n <= k
      BY <2>1, OneBelow
    <3>2. QED
      BY <1>7, <3>1
  <2>4. \A t : Cardinality(Within(stack', b, Depth', t)) = 0
    BY <2>1, <2>3, WithinFacts
  <2>5. Tallied(d)'
    BY <1>6, <2>2, <2>3, <2>4 DEF Tallied, CountsWithin
  <2>6. n = k - 1 /\ -1 <= k /\ ~(k < 0)
    BY <2>1, OneBelow
  <2>7. d.first \in Closing /\ d.base = k
    BY <1>4, <1>11
  <2>8. QED
    BY <1>2, <2>1, <2>5, <2>6, <2>7 DEF AfterTurn
<1>12. CASE ~(e \in Closing /\ call.first = "none")
  <2>1. e \in Closing => b < Depth
    <3>1. e \in Closing => Depth > 0
      BY <1>1, <1>2 DEF FramesShape
    <3>2. QED
      BY <1>2, <1>7, <1>9, <1>12, <3>1
  <2>2. CountsWithin(d.arr - x, d.obj - y, b)'
    <3>1. PICK c \in SkipCall : c = call
      OBVIOUS
    <3>2. CountsWithin(Tally(c, e).arr - x, Tally(c, e).obj - y, b)'
      BY <1>1, <1>10, <2>1, <3>1, TallyKeepsCounts
    <3>3. QED
      BY <3>1, <3>2
  <2>3. Tallied(d)'
    BY <1>6, <2>2 DEF Tallied
  <2>4. k <= Depth' /\ -1 <= k
    <3>1. b <= Depth'
      BY <1>1, <1>2, <1>10, <2>1 DEF FramesShape
    <3>2. QED
      BY <1>2, <1>7, <1>8, <1>9, <3>1
  <2>5. d.first \notin Closing /\ (k < 0 => d.first \in Container)
    <3>1. call.first = "none" => k >= 0
      BY <1>2, <1>8
    <3>2. QED
      BY <1>4, <1>9, <1>12, <3>1 DEF SkipShape, Closing
  <2>6. QED
    BY <1>2, <1>4, <2>3, <2>4, <2>5 DEF AfterTurn
<1>13. QED
  BY <1>11, <1>12

LEMMA TurnLeaves ==
  ASSUME StackInv, StackInv', SkipInv, call \in SkipCall, call # Idle, SkipShape,
         NEW e \in Event \ {"error", "done"}, NextEvent(e),
         NEW d \in SkipCall, d = Tally(call, e)
  PROVE  AfterTurn(d)'
BY BufferedTurn, FreshTurn DEF NextEvent

(* With both counts at zero no container is open above the depth the skip  *)
(* started from, and with one of them above zero there is one.             *)
LEMMA CountsTell ==
  ASSUME NEW mem, NEW n \in Nat, \A i \in 0 .. n - 1 : mem[i].type \in Container,
         NEW b \in Nat
  PROVE  (\A t \in Container : Cardinality(Within(mem, b, n, t)) = 0) <=> n <= b
<1>1. ASSUME \A t \in Container : Cardinality(Within(mem, b, n, t)) = 0 PROVE n <= b
  <2>1. \A t \in Container : Within(mem, b, n, t) = {}
    BY <1>1, WithinFacts
  <2>2. \A i \in b .. n - 1 : FALSE
    BY <2>1 DEF Within, Container
  <2>3. QED
    BY <2>2
<1>2. n <= b => \A t : Cardinality(Within(mem, b, n, t)) = 0
  BY WithinFacts
<1>3. QED
  BY <1>1, <1>2

LEMMA OpenFrameTypes ==
  StackInv /\ errmsg = "none" => \A i \in 0 .. Depth - 1 : stack[i].type \in Container
<1>1. StackInv /\ errmsg = "none" => \A i \in 0 .. Depth - 1 : stack[i] \in Frame
  BY StackIsBlock DEF Block
<1>2. QED
  BY <1>1 DEF Frame

LEMMA AfterTurnCounts ==
  ASSUME StackInv', NEW c \in SkipCall, AfterTurn(c)'
  PROVE  c.arr = 0 /\ c.obj = 0 <=> Depth' <= c.base
<1>1. PICK b \in Int : b = c.base
  BY DEF SkipCall
<1>2. PICK n \in Nat : n = Depth'
  BY DEF AfterTurn
<1>3. \A i \in 0 .. n - 1 : stack'[i].type \in Container
  <2>1. (StackInv /\ errmsg = "none" => \A i \in 0 .. Depth - 1 : stack[i].type \in Container)'
    BY OpenFrameTypes, PTL
  <2>2. QED
    BY <1>2, <2>1 DEF AfterTurn, Latched
<1>4. PICK f \in Nat, x \in Nat, y \in Nat :
        f = Floor(c) /\ x = Owed(c, "array") /\ y = Owed(c, "object")
  BY OwedCases
<1>5. PICK arr \in Nat, obj \in Nat : /\ arr = Cardinality(Within(stack', f, n, "array"))
                                      /\ obj = Cardinality(Within(stack', f, n, "object"))
  BY WithinFacts
<1>6. c.arr = arr + x /\ c.obj = obj + y
  <2>1. c.arr - x = arr /\ c.obj - y = obj
    BY <1>2, <1>4, <1>5 DEF AfterTurn, Tallied, CountsWithin
  <2>2. c.arr \in Nat /\ c.obj \in Nat
    BY DEF SkipCall
  <2>3. QED
    BY <1>4, <1>5, <2>1, <2>2
<1>7. arr = 0 /\ obj = 0 <=> n <= f
  <2>1. (\A t \in Container : Cardinality(Within(stack', f, n, t)) = 0) <=> n <= f
    BY <1>3, CountsTell, Zenon
  <2>2. QED
    BY <1>5, <2>1 DEF Container
<1>8. CASE b >= 0
  <2>1. f = b /\ x = 0 /\ y = 0
    BY <1>1, <1>4, <1>8, OwedCases
  <2>2. QED
    BY <1>1, <1>2, <1>6, <1>7, <2>1
<1>9. CASE b < 0
  <2>1. c.first = "array" \/ c.first = "object"
    BY <1>1, <1>9 DEF AfterTurn, Container
  <2>2. x = 1 \/ y = 1
    BY <1>1, <1>4, <1>9, <2>1, OwedCases
  <2>3. ~(n <= b) /\ ~(c.arr = 0 /\ c.obj = 0)
    BY <1>6, <1>9, <2>2
  <2>4. QED
    BY <1>1, <1>2, <2>3
<1>10. QED
  BY <1>1, <1>8, <1>9

LEMMA BufferedInvKept ==
  ASSUME StackInv, StackInv', BufferedInv, [Next]_vars
  PROVE  BufferedInv'
<1>0. "none" \notin Container /\ "error" \notin Container
  BY DEF Container
<1>1. CASE next' \notin Container
  BY <1>1 DEF BufferedInv
<1>2. CASE UNCHANGED <<stackVars, next>>
  BY <1>2 DEF BufferedInv, stackVars, Depth, Latched
<1>3. ASSUME NEW e, NextEvent(e) PROVE BufferedInv'
  BY <1>0, <1>1, <1>2, <1>3 DEF NextEvent
<1>4. CASE Peek
  <2>1. ASSUME NEW e, ~Latched, NewEvent(e), e \in Container, next' = e PROVE BufferedInv'
    <3>1. FramesShape(e)
      BY <1>0, <2>1, NewEventFrames
    <3>2. ~Latched' /\ Depth \in Nat /\ Depth' = Depth + 1 /\ stack'[Depth].type = e
      BY <2>1, <3>1 DEF FramesShape
    <3>3. Depth' > 0 /\ Depth' - 1 = Depth
      BY <3>2
    <3>4. QED
      BY <2>1, <3>2, <3>3 DEF BufferedInv
  <2>2. QED
    BY <1>0, <1>1, <1>2, <1>4, <2>1 DEF Peek, parserVars
<1>5. CASE NextCall \/ SkipStep
  BY <1>3, <1>5 DEF NextCall, SkipStep
<1>6. CASE Reset
  <2>1. errmsg' = "none" /\ Depth' = 0
    BY <1>6, IndexArithmetic DEF Reset, ResetStep, Depth, StackInv, StackTypeOK
  <2>2. ~Latched'
    BY <2>1 DEF Latched
  <2>3. QED
    BY <2>1, <2>2 DEF BufferedInv
<1>7. CASE BeginSkip \/ SetStreaming \/ SourceGet \/ SourcePeek \/ UNCHANGED vars
  BY <1>2, <1>7 DEF BeginSkip, SetStreaming, SourceGet, SourcePeek, vars, parserVars
<1>8. QED
  BY <1>4, <1>5, <1>6, <1>7 DEF Next

LEMMA BesideInvKept ==
  ASSUME StackInv, StackInv', call \in SkipCall, SkipShape, SkipInv, [Next]_vars
  PROVE  BesideInv'
<1>1. CASE call' = Idle
  BY <1>1 DEF BesideInv
<1>2. CASE SkipStep
  <2>1. PICK e \in Event : NextEvent(e) /\ Turn(e, Tally(call, e))
    BY <1>2, SkipStepTurns
  <2>2. PICK d \in SkipCall : d = Tally(call, e)
    BY TallyFacts
  <2>3. CASE call' = d /\ (d.arr # 0 \/ d.obj # 0) /\ e \notin {"error", "done"}
    <3>1. AfterTurn(d)'
      BY <1>2, <2>1, <2>2, <2>3, TurnLeaves DEF SkipStep
    <3>2. d.base < Depth'
      <4>1. d.base \in Int /\ Depth' \in Nat /\ ~(Depth' <= d.base)
        BY <2>3, <3>1, AfterTurnCounts DEF SkipCall, AfterTurn
      <4>2. QED
        BY <4>1
    <3>3. d.first # "none"
      BY <2>2, <2>3, TallyFacts, TallyCounts DEF SkipShape
    <3>4. QED
      BY <2>3, <3>1, <3>2, <3>3 DEF BesideInv, AfterTurn, Tallied, CountsWithin, Owed, Floor
  <2>4. CASE call' = Skipping(d.op, d.target, BaseDepth')
    BY <2>4, SkippingStarts DEF BesideInv
  <2>5. QED
    BY <1>1, <2>1, <2>2, <2>3, <2>4 DEF Turn, Return
<1>3. CASE BeginSkip
  <2>1. call'.first = "none" /\ call'.base = BaseDepth /\ UNCHANGED <<next, stackTop>>
    BY <1>3, SkippingStarts DEF BeginSkip, parserVars, stackVars
  <2>2. QED
    BY <2>1 DEF BesideInv, BaseDepth, Depth
<1>4. CASE NextCall \/ Peek \/ Reset \/ SetStreaming \/ SourceGet \/ SourcePeek
  BY <1>1, <1>4 DEF NextCall, Peek, Reset, SetStreaming, SourceGet, SourcePeek
<1>5. CASE UNCHANGED vars
  BY <1>5 DEF vars, parserVars, stackVars, SkipInv, BesideInv, Tallied, CountsWithin, Owed, Floor, BaseDepth,
                  Depth, Latched
<1>6. QED
  BY <1>2, <1>3, <1>4, <1>5 DEF Next

(* The bookkeeping of a skip, from its first turn to its last. *)
LEMMA SkipInvHolds == Spec => []SkipInv
<1>1. Init => SkipInv
  <2>1. Init => next = "none" /\ call = Idle
    BY DEF Init
  <2>2. QED
    BY <2>1 DEF SkipInv, BufferedInv, BesideInv, Container
<1>2. ParserInv /\ ParserInv' /\ SkipShape /\ SkipInv /\ [Next]_vars => SkipInv'
  BY BufferedInvKept, BesideInvKept DEF ParserInv, CallsOK, SkipInv
<1>3. QED
  BY <1>1, <1>2, ParserInvariant, SkipShapeHolds, PTL DEF Spec

LEMMA EventSorts ==
  /\ \A x \in Value : x \notin Closing /\ x # "none" /\ x # "error" /\ x # "done"
  /\ \A x \in Closing : x # "none" /\ x # "error" /\ x # "done"
BY DEF Value, Closing, Literal

(* What a skip has left when it returns. *)
LEMMA ReturnStays ==
  ASSUME ParserInv, ParserInv', SkipShape, SkipInv, [Next]_vars, call # Idle, call' = Idle
  PROVE  /\ event' \in Value => Depth' = call.base
         /\ event' \in Closing => Depth' = call.base - 1
<1>0. StackInv /\ StackInv' /\ call \in SkipCall
  BY DEF ParserInv, CallsOK
<1>1. SkipStep
  BY DEF Next, NextCall, Peek, BeginSkip, Reset, SetStreaming, SourceGet, SourcePeek, vars
<1>2. PICK e \in Event : NextEvent(e) /\ Turn(e, Tally(call, e))
  BY <1>1, SkipStepTurns
<1>3. PICK d \in SkipCall : d = Tally(call, e)
  BY <1>0, TallyFacts
<1>4. CASE event' \in {"none", "error", "done"}
  BY EventSorts, <1>4
<1>5. CASE event' = d.first /\ d.arr = 0 /\ d.obj = 0 /\ e \notin {"error", "done"}
  <2>1. AfterTurn(d)' /\ d.base = call.base
    BY <1>0, <1>2, <1>3, <1>5, TurnLeaves, TallyCounts
  <2>2. d.first \in Closing => Depth' = d.base - 1
    BY <2>1 DEF AfterTurn
  <2>3. d.first \notin Closing => Depth' = d.base
    <3>1. d.first \notin Closing => d.base <= Depth' /\ Depth' <= d.base
      BY <1>0, <1>5, <2>1, AfterTurnCounts DEF AfterTurn
    <3>2. d.base \in Int /\ Depth' \in Nat
      BY <2>1 DEF AfterTurn, SkipCall
    <3>3. QED
      BY <3>1, <3>2
  <2>4. QED
    BY EventSorts, <1>5, <2>1, <2>2, <2>3
<1>6. event = "none"
  BY DEF SkipShape
<1>7. QED
  BY <1>2, <1>3, <1>4, <1>5, <1>6 DEF Turn, Return

(***************************************************************************)
(* skip leaves the caller beside the value it skipped, at the depth it     *)
(* started from, or one less when all it found was the end of a container: *)
(* whatever was buffered, however deep and mixed the containers inside.    *)
(* Counting the arrays and the objects separately is enough because the    *)
(* grammar closes them in order, which is what the frames record.          *)
(***************************************************************************)
THEOREM SkipsStayBeside == Spec => SkipStaysBeside
<1> DEFINE Stays == call # Idle /\ call' = Idle =>
                      /\ event' \in Value => Depth' = call.base
                      /\ event' \in Closing => Depth' = call.base - 1
<1>1. ParserInv /\ ParserInv' /\ SkipShape /\ SkipInv /\ [Next]_vars => Stays
  BY ReturnStays
<1> HIDE DEF Stays
<1>2. Spec => [][Stays]_vars
  BY <1>1, ParserInvariant, SkipShapeHolds, SkipInvHolds, PTL DEF Spec
<1>3. QED
  BY <1>2 DEF SkipStaysBeside, Stays

(***************************************************************************)
(* The block read as the stack of the grammar: of each open container its  *)
(* type and the state a caller tells from its count.                       *)
(***************************************************************************)
Row(f) == [type |-> f.type, phase |-> Phase(f)]
Rows   == [type : Container, phase : {"EMPTY", "AFTER_KEY", "AFTER_VALUE"}]
RowsOf(mem, n) == [i \in 1 .. n |-> Row(mem[i - 1])]

LEMMA RowFacts ==
  ASSUME NEW f \in Frame
  PROVE  /\ Row(f) \in Rows /\ Row(f).type = f.type /\ Row(f).phase = Phase(f)
         /\ f.type \in Container /\ f.count \in Nat
BY DEF Row, Rows, Phase, Frame

LEMMA NewRow ==
  ASSUME NEW t \in Container
  PROVE  Row(NewFrame(t)) = [type |-> t, phase |-> "EMPTY"]
BY DEF Row, Phase, NewFrame

(* The parity of a count tells a member's name from its value. *)
LEMMA PhaseByParity ==
  ASSUME NEW f \in Frame
  PROVE  /\ f.type = "object" => ((Phase(f) = "AFTER_KEY") <=> (f.count % 2 = 1))
         /\ f.type = "object" => (f.count % 2 = 0 \/ f.count % 2 = 1)
         /\ f.type = "array" => Phase(f) \in {"EMPTY", "AFTER_VALUE"}
<1>1. f.count \in Nat
  BY DEF Frame
<1>2. f.count % 2 \in 0 .. 1
  BY <1>1
<1>3. QED
  BY <1>1, <1>2 DEF Phase

LEMMA CountedRow ==
  ASSUME NEW f \in Frame
  PROVE  Row([type |-> f.type, count |-> f.count + 1])
           = [Row(f) EXCEPT !.phase = Grammar!PhaseAfter(Row(f))]
<1> DEFINE g == [type |-> f.type, count |-> f.count + 1]
<1>1. f.count \in Nat /\ f.type \in Container
  BY DEF Frame
<1>2. g \in Frame /\ g.type = f.type /\ g.count = f.count + 1 /\ g.count # 0
  BY <1>1 DEF Frame
<1>3. (f.count % 2 = 1) <=> ~(g.count % 2 = 1)
  BY <1>1, <1>2
<1>4. Phase(g) = Grammar!PhaseAfter(Row(f))
  <2>1. CASE f.type = "object"
    <3>1. Row(f).type = "object" /\ Row(f).phase = Phase(f)
      BY <2>1 DEF Row
    <3>2. Phase(f) = "AFTER_KEY" <=> f.count % 2 = 1
      BY <2>1, PhaseByParity
    <3>3. Phase(g) = IF g.count % 2 = 1 THEN "AFTER_KEY" ELSE "AFTER_VALUE"
      BY <1>2, <2>1 DEF Phase
    <3>4. QED
      BY <1>3, <3>1, <3>2, <3>3 DEF Grammar!PhaseAfter
  <2>2. CASE f.type # "object"
    <3>1. Phase(g) = "AFTER_VALUE"
      BY <1>2, <2>2 DEF Phase
    <3>2. QED
      BY <2>2, <3>1 DEF Grammar!PhaseAfter, Row
  <2>3. QED
    BY <2>1, <2>2
<1> HIDE DEF g
<1>5. Row(g) = [type |-> f.type, phase |-> Grammar!PhaseAfter(Row(f))]
  BY <1>2, <1>4 DEF Row
<1>6. QED
  BY <1>5 DEF Row, g

LEMMA RowsOfIsSeq ==
  ASSUME NEW mem, NEW n \in Nat, \A i \in 0 .. n - 1 : mem[i] \in Frame
  PROVE  /\ RowsOf(mem, n) \in Seq(Rows)
         /\ Len(RowsOf(mem, n)) = n
         /\ \A i \in 1 .. n : RowsOf(mem, n)[i] = Row(mem[i - 1])
<1>1. \A i \in 1 .. n : Row(mem[i - 1]) \in Rows
  BY RowFacts
<1>2. RowsOf(mem, n) \in [1 .. n -> Rows]
  BY <1>1 DEF RowsOf
<1>3. RowsOf(mem, n) \in Seq(Rows)
  BY <1>2, SeqDef
<1>4. DOMAIN RowsOf(mem, n) = 1 .. Len(RowsOf(mem, n)) /\ Len(RowsOf(mem, n)) \in Nat
  BY <1>3, LenProperties
<1>5. Len(RowsOf(mem, n)) = n
  BY <1>2, <1>4
<1>6. QED
  BY <1>3, <1>5 DEF RowsOf

LEMMA RowsOfNone ==
  ASSUME NEW mem
  PROVE  RowsOf(mem, 0) = <<>>
<1>1. RowsOf(mem, 0) \in Seq(Rows) /\ Len(RowsOf(mem, 0)) = 0
  BY RowsOfIsSeq
<1>2. QED
  BY <1>1, EmptySeq

LEMMA RowsOfAppend ==
  ASSUME NEW mem, NEW mem2, NEW n \in Nat,
         \A i \in 0 .. n - 1 : mem[i] \in Frame /\ mem2[i] = mem[i],
         mem2[n] \in Frame
  PROVE  RowsOf(mem2, n + 1) = Append(RowsOf(mem, n), Row(mem2[n]))
<1> DEFINE s == RowsOf(mem, n)
           l == RowsOf(mem2, n + 1)
           r == Append(RowsOf(mem, n), Row(mem2[n]))
<1>0. Row(mem2[n]) \in Rows
  BY RowFacts
<1>1. s \in Seq(Rows) /\ Len(s) = n /\ \A i \in 1 .. n : s[i] = Row(mem[i - 1])
  BY RowsOfIsSeq
<1>2. /\ r \in Seq(Rows) /\ Len(r) = n + 1 /\ r[n + 1] = Row(mem2[n])
      /\ \A i \in 1 .. n : r[i] = Row(mem[i - 1])
  BY <1>0, <1>1, AppendProperties
<1>3. \A i \in 0 .. (n + 1) - 1 : mem2[i] \in Frame
  OBVIOUS
<1>4. l \in Seq(Rows) /\ Len(l) = n + 1 /\ \A i \in 1 .. n + 1 : l[i] = Row(mem2[i - 1])
  BY <1>3, RowsOfIsSeq
<1>5. ASSUME NEW i \in 1 .. n + 1 PROVE l[i] = r[i]
  <2>1. CASE i = n + 1
    BY <1>2, <1>4, <2>1
  <2>2. CASE i # n + 1
    <3>1. i \in 1 .. n /\ i - 1 \in 0 .. n - 1
      BY <2>2
    <3>2. QED
      BY <1>2, <1>4, <3>1
  <2>3. QED
    BY <2>1, <2>2
<1> HIDE DEF l, r
<1>6. l = r
  BY <1>2, <1>4, <1>5, SeqEqual
<1>7. QED
  BY <1>6 DEF l, r

LEMMA RowsOfShorter ==
  ASSUME NEW mem, NEW n \in Nat, \A i \in 0 .. n : mem[i] \in Frame
  PROVE  RowsOf(mem, n) = SubSeq(RowsOf(mem, n + 1), 1, Len(RowsOf(mem, n + 1)) - 1)
<1> DEFINE l == RowsOf(mem, n)
           s == RowsOf(mem, n + 1)
           r == SubSeq(s, 1, n)
<1>1. l \in Seq(Rows) /\ Len(l) = n /\ \A i \in 1 .. n : l[i] = Row(mem[i - 1])
  BY RowsOfIsSeq
<1>2. \A i \in 0 .. (n + 1) - 1 : mem[i] \in Frame
  OBVIOUS
<1>3. s \in Seq(Rows) /\ Len(s) = n + 1 /\ \A i \in 1 .. n + 1 : s[i] = Row(mem[i - 1])
  BY <1>2, RowsOfIsSeq
<1>4. \A i \in 1 .. n : s[i] \in Rows /\ s[i] = Row(mem[i - 1])
  BY <1>2, <1>3, RowFacts
<1> HIDE DEF s
<1>5. r \in Seq(Rows) /\ Len(r) = n /\ \A i \in 1 .. n : r[i] = s[i]
  BY <1>4, SubSeqProperties
<1> HIDE DEF l, r
<1>6. l = r
  BY <1>1, <1>4, <1>5, SeqEqual
<1>7. QED
  BY <1>3, <1>6 DEF l, r, s

LEMMA RowsOfCounted ==
  ASSUME StackInv, errmsg = "none", HasFrame
  PROVE  RowsOf(Counted, Depth)
           = LET s == RowsOf(stack, Depth) IN
             [s EXCEPT ![Len(s)].phase = Grammar!PhaseAfter(s[Len(s)])]
<1> DEFINE n == Depth
           l == RowsOf(Counted, n)
           s == RowsOf(stack, n)
           e == [s[n] EXCEPT !.phase = Grammar!PhaseAfter(s[n])]
           r == [s EXCEPT ![n] = e]
<1>1. /\ n \in Nat \ {0} /\ stackTop = n - 1 /\ CurrentFrame \in Frame
      /\ \A i \in 0 .. n - 1 : i \in 0 .. stackSize - 1 /\ stack[i] \in Frame /\ Counted[i] \in Frame
  <2>1. Depth = stackTop + 1 /\ stackTop \in 0 .. stackSize - 1 /\ stackSize \in Nat
        /\ CurrentFrame \in Frame
    BY TopInsideBlock DEF HasFrame, StackInv, StackTypeOK
  <2>2. \A i \in 0 .. Depth - 1 : stack[i] \in Frame /\ Counted[i] \in Frame
    BY StackIsBlock DEF Block
  <2>3. QED
    BY <2>1, <2>2
<1>2. /\ Counted[n - 1] = [type |-> stack[n - 1].type, count |-> stack[n - 1].count + 1]
      /\ \A i \in 0 .. n - 2 : Counted[i] = stack[i]
  BY <1>1, CountedFacts DEF CurrentFrame
<1>3. l \in Seq(Rows) /\ Len(l) = n /\ \A i \in 1 .. n : l[i] = Row(Counted[i - 1])
  BY <1>1, RowsOfIsSeq
<1>4. s \in Seq(Rows) /\ Len(s) = n /\ \A i \in 1 .. n : s[i] = Row(stack[i - 1])
  BY <1>1, RowsOfIsSeq
<1>5. e = Row(Counted[n - 1]) /\ e \in Rows
  <2>1. s[n] = Row(stack[n - 1]) /\ stack[n - 1] \in Frame /\ Counted[n - 1] \in Frame
    BY <1>1, <1>4
  <2>2. QED
    BY <1>2, <2>1, CountedRow, RowFacts
<1> HIDE DEF s, e, l, n
<1>6. /\ r \in Seq(Rows) /\ Len(r) = n
      /\ \A i \in 1 .. n : r[i] = IF i = n THEN e ELSE s[i]
  BY <1>1, <1>4, <1>5, ExceptSeq
<1>7. ASSUME NEW i \in 1 .. n PROVE l[i] = r[i]
  <2>1. CASE i = n
    BY <1>1, <1>3, <1>5, <1>6, <2>1
  <2>2. CASE i # n
    <3>1. i - 1 \in 0 .. n - 2
      BY <1>1, <2>2
    <3>2. QED
      BY <1>1, <1>2, <1>3, <1>4, <1>6, <2>2, <3>1
  <2>3. QED
    BY <2>1, <2>2
<1> HIDE DEF r
<1>8. l = r
  BY <1>3, <1>6, <1>7, SeqEqual
<1>9. QED
  BY <1>4, <1>8 DEF l, r, s, e, n

-----------------------------------------------------------------------------
(***************************************************************************)
(* The parser implements the grammar.  A container is open only after a    *)
(* value has been started, and after DONE there is only DONE.              *)
(***************************************************************************)
StartedInv == ~AtTop => started

LEMMA ReadValueStarts ==
  ASSUME NEW r, NEW mem, NEW v, NEW m, ReadValue(r, mem, v, m)
  PROVE  started' = TRUE
BY DEF ReadValue

LEMMA NewEventStarts ==
  ASSUME StartedInv, NEW e, NewEvent(e)
  PROVE  StartedInv'
<1> USE DEF StartedInv, AtTop
<1>1. CASE AfterValue(e)
  BY <1>1 DEF AfterValue
<1>2. CASE FirstValue(e)
  BY <1>2, ReadValueStarts DEF FirstValue
<1>3. CASE NoFrame(e) \/ OtherFrame(e)
  BY <1>3 DEF NoFrame, OtherFrame, InvalidState
<1>4. CASE InArray(e)
  BY <1>4, ReadValueStarts DEF InArray, Close, Reject
<1>5. CASE InObject(e)
  <2>1. \A x : ReadMember(x, e) => started' = TRUE
    BY ReadValueStarts DEF ReadMember
  <2>2. QED
    BY <1>5, <2>1, ReadValueStarts DEF InObject, Close, Reject
<1>6. QED
  BY <1>1, <1>2, <1>3, <1>4, <1>5 DEF NewEvent

LEMMA StartedInvKept ==
  ASSUME StartedInv, [Next]_vars
  PROVE  StartedInv'
<1>1. CASE UNCHANGED <<stackTop, started>>
  BY <1>1 DEF StartedInv, AtTop
<1>2. ASSUME NEW e, NextEvent(e) PROVE StartedInv'
  BY <1>1, <1>2, NewEventStarts DEF NextEvent, stackVars
<1>3. CASE NextCall \/ SkipStep
  BY <1>2, <1>3 DEF NextCall, SkipStep
<1>4. CASE Peek
  BY <1>1, <1>4, NewEventStarts DEF Peek, parserVars, stackVars
<1>5. CASE Reset
  BY <1>5 DEF Reset, ResetStep, StartedInv, AtTop
<1>6. CASE BeginSkip \/ SetStreaming \/ SourceGet \/ SourcePeek \/ UNCHANGED vars
  BY <1>1, <1>6 DEF BeginSkip, SetStreaming, SourceGet, SourcePeek, vars, parserVars, stackVars
<1>7. QED
  BY <1>3, <1>4, <1>5, <1>6 DEF Next

LEMMA StartedInvHolds == Spec => []StartedInv
<1>1. Init => StartedInv
  BY DEF Init, StackInit, StartedInv, AtTop
<1>2. StartedInv /\ [Next]_vars => StartedInv'
  BY StartedInvKept
<1>3. QED
  BY <1>1, <1>2, PTL DEF Spec

LEMMA DoneThenDone ==
  ASSUME DoneInv, emitted = "done", NEW e, NewEvent(e)
  PROVE  e = "done"
<1>1. AtTop /\ (~streaming \/ ~started => src.ahead = "eof") /\ (~started => streaming)
  BY DEF DoneInv
<1>2. ~streaming \/ ~started => \A r \in NextChar(src) : r.byte = "eof"
  BY <1>1, EndStays
<1>3. ~NoFrame(e) /\ ~OtherFrame(e) /\ ~InArray(e) /\ ~InObject(e)
  BY <1>1 DEF NoFrame, OtherFrame, InArray, InObject
<1>4. CASE AfterValue(e)
  BY <1>2, <1>4 DEF AfterValue
<1>5. CASE FirstValue(e)
  BY <1>1, <1>2, <1>5 DEF FirstValue
<1>6. QED
  BY <1>3, <1>4, <1>5 DEF NewEvent

(* What the grammar sees while no error is latched. *)
LEMMA GrammarSees ==
  ASSUME StackInv, ~Latched
  PROVE  /\ Depth \in Nat /\ OpenDepth = Depth
         /\ GrammarOpen = RowsOf(stack, Depth)
         /\ GrammarOpen \in Seq(Rows) /\ Len(GrammarOpen) = Depth
         /\ AtTop => Depth = 0 /\ GrammarOpen = <<>>
         /\ ~AtTop =>
              /\ HasFrame /\ CurrentFrame \in Frame /\ GrammarOpen # <<>>
              /\ Grammar!Inner = Row(CurrentFrame)
<1>1. /\ Depth \in Nat /\ OpenDepth = Depth
      /\ AtTop => Depth = 0
      /\ ~AtTop => HasFrame /\ CurrentFrame \in Frame /\ Depth = stackTop + 1 /\ stackTop \in Nat
  BY TopInsideBlock DEF Latched, AtTop, StackInv, StackTypeOK
<1>2. GrammarOpen = RowsOf(stack, Depth)
  BY <1>1 DEF GrammarOpen, RowsOf, Row
<1>3. \A i \in 0 .. Depth - 1 : stack[i] \in Frame
  BY StackIsBlock DEF Block, Latched
<1>4. /\ GrammarOpen \in Seq(Rows) /\ Len(GrammarOpen) = Depth
      /\ \A i \in 1 .. Depth : GrammarOpen[i] = Row(stack[i - 1])
  BY <1>1, <1>2, <1>3, RowsOfIsSeq
<1>5. ASSUME AtTop PROVE GrammarOpen = <<>>
  BY <1>1, <1>2, <1>5, RowsOfNone
<1>6. ASSUME ~AtTop PROVE GrammarOpen # <<>> /\ Grammar!Inner = Row(CurrentFrame)
  <2>1. PICK n \in Nat : n = stackTop /\ Depth = n + 1
    BY <1>1, <1>6
  <2>2. GrammarOpen[n + 1] = Row(stack[n])
    BY <1>4, <2>1
  <2>3. GrammarOpen # <<>>
    BY <1>4, <2>1, EmptySeq
  <2>4. QED
    BY <1>4, <2>1, <2>2, <2>3 DEF Grammar!Inner, CurrentFrame
<1>7. QED
  BY <1>1, <1>2, <1>4, <1>5, <1>6

LEMMA GrammarSeesAfter ==
  (StackInv /\ ~Latched => OpenDepth = Depth /\ GrammarOpen = RowsOf(stack, Depth))'
<1>1. StackInv /\ ~Latched => OpenDepth = Depth /\ GrammarOpen = RowsOf(stack, Depth)
  BY GrammarSees
<1>2. QED
  BY <1>1, PTL

(* A value that comes where the grammar allows one moves it as it moves    *)
(* the frames.                                                             *)
LEMMA EntersIsEmit ==
  ASSUME StackInv, StackInv', ~Latched, DoneInv, StartedInv, emitted # "done",
         NEW e, e \in Grammar!Allowed, emitted' = e, Enters(IF AtTop THEN stack ELSE Counted, e)
  PROVE  Grammar!Emit(e)
<1> DEFINE mem == IF AtTop THEN stack ELSE Counted
<1>1. /\ Depth \in Nat /\ GrammarOpen = RowsOf(stack, Depth)
      /\ AtTop => Depth = 0 /\ GrammarOpen = <<>>
      /\ ~AtTop => HasFrame /\ GrammarOpen # <<>>
  BY GrammarSees
<1>2. Block(mem)
  BY <1>1, StackIsBlock DEF Latched
<1>3. RowsOf(mem, Depth) = Grammar!Entered
  <2>1. CASE AtTop
    BY <1>1, <2>1 DEF Grammar!Entered
  <2>2. CASE ~AtTop
    BY <1>1, <2>2, RowsOfCounted DEF Grammar!Entered, Grammar!Inner, Latched
  <2>3. QED
    BY <2>1, <2>2
<1>4. Enters(mem, e)
  OBVIOUS
<1> HIDE DEF mem
<1>5. e \in Value /\ started' = TRUE
  BY <1>4 DEF Enters
<1>6. ~Latched' /\ GrammarOpen' = RowsOf(stack', Depth')
  BY <1>2, <1>4, EntersEffect, GrammarSeesAfter
<1>7. e # "done" /\ e # "error" /\ e \notin Grammar!Closing
  BY <1>5 DEF Value, Literal, Grammar!Closing
<1>8. GrammarOpen' = Grammar!OpenAfter(e)
  <2>1. CASE e \in Container
    <3>1. /\ Depth' = Depth + 1 /\ stack'[Depth] = NewFrame(e)
          /\ \A i \in 0 .. Depth - 1 : stack'[i] = mem[i]
      BY <1>2, <1>4, <2>1, EntersEffect
    <3>2. /\ \A i \in 0 .. Depth - 1 : mem[i] \in Frame /\ stack'[i] = mem[i]
          /\ stack'[Depth] \in Frame
      BY <1>2, <2>1, <3>1, FrameFacts DEF Block
    <3>3. RowsOf(stack', Depth + 1) = Append(RowsOf(mem, Depth), Row(stack'[Depth]))
      BY <1>1, <3>2, RowsOfAppend
    <3>4. GrammarOpen' = Append(Grammar!Entered, [type |-> e, phase |-> "EMPTY"])
      BY <1>3, <1>6, <2>1, <3>1, <3>3, NewRow
    <3>5. QED
      BY <1>7, <2>1, <3>4 DEF Grammar!OpenAfter, Container
  <2>2. CASE e \notin Container
    <3>1. GrammarOpen' = Grammar!Entered
      BY <1>2, <1>3, <1>4, <1>6, <2>2, EntersEffect
    <3>2. QED
      BY <1>7, <2>2, <3>1 DEF Grammar!OpenAfter, Container
  <2>3. QED
    BY <2>1, <2>2
<1>9. GrammarTop' = "AFTER_VALUE"
  BY <1>5, <1>6, <1>7 DEF GrammarTop
<1>10. Latched' = Latched
  BY <1>6 DEF Latched
<1>11. QED
  BY <1>7, <1>8, <1>9, <1>10 DEF Grammar!Emit

LEMMA LeavesIsEmit ==
  ASSUME StackInv, StackInv', ~Latched, DoneInv, StartedInv, emitted # "done",
         NEW t \in Container, NEW e, e \in Grammar!Allowed, emitted' = e, ~AtTop, Leaves(t, e)
  PROVE  Grammar!Emit(e)
<1>1. stackTop \in Nat /\ Depth = stackTop + 1 /\ Depth' = stackTop /\ UNCHANGED stack
  BY PopEffect DEF Leaves, Latched
<1>2. PICK n \in Nat : n = stackTop
  BY <1>1
<1>3. ~Latched' /\ GrammarOpen' = RowsOf(stack', Depth')
  BY GrammarSeesAfter DEF Leaves, Latched
<1>4. GrammarOpen' = RowsOf(stack, n) /\ GrammarOpen = RowsOf(stack, n + 1)
  BY <1>1, <1>2, <1>3, GrammarSees
<1>5. \A i \in 0 .. n : stack[i] \in Frame
  BY <1>1, <1>2, StackIsBlock DEF Block, Latched
<1>6. GrammarOpen' = SubSeq(GrammarOpen, 1, Len(GrammarOpen) - 1)
  BY <1>4, <1>5, RowsOfShorter
<1>7. e \in Grammar!Closing /\ e # "done" /\ e # "error"
  BY DEF Leaves, Grammar!Closing
<1>8. GrammarTop' = "AFTER_VALUE"
  BY <1>3, <1>7 DEF GrammarTop, StartedInv, Leaves
<1>9. GrammarOpen' = Grammar!OpenAfter(e)
  <2>1. Grammar!OpenAfter(e) = SubSeq(GrammarOpen, 1, Len(GrammarOpen) - 1)
    BY <1>7 DEF Grammar!OpenAfter, Grammar!Closing
  <2>2. QED
    BY <1>6, <2>1
<1>10. Latched' = Latched
  BY <1>3 DEF Latched
<1>11. QED
  BY <1>7, <1>8, <1>9, <1>10 DEF Grammar!Emit

LEMMA EnteringIsAllowed ==
  ASSUME StackInv, ~Latched, NEW e \in Value, emitted # "done",
         \/ AtTop /\ ~started
         \/ ~AtTop /\ CurrentFrame.type = "array"
         \/ ~AtTop /\ CurrentFrame.type = "object" /\ CurrentFrame.count % 2 = 1
         \/ ~AtTop /\ CurrentFrame.type = "object" /\ e = "string"
  PROVE  e \in Grammar!Allowed
<1>1. e \in Grammar!Value
  BY DEF Value, Literal, Grammar!Value
<1>2. CASE AtTop /\ ~started
  <2>1. GrammarOpen = <<>> /\ GrammarTop = "START"
    BY <1>2, GrammarSees DEF GrammarTop
  <2>2. Grammar!Allowed = Grammar!TopSpec["START"]
    BY <2>1 DEF Grammar!Allowed
  <2>3. QED
    BY <1>1, <2>2 DEF Grammar!TopSpec
<1>3. CASE ~AtTop
  <2>1. /\ GrammarOpen # <<>> /\ Grammar!Inner = Row(CurrentFrame) /\ CurrentFrame \in Frame
    BY <1>3, GrammarSees
  <2>2. Grammar!Inner.type = CurrentFrame.type /\ Grammar!Inner.phase = Phase(CurrentFrame)
    BY <2>1, RowFacts
  <2>3. Grammar!Allowed = IF CurrentFrame.type = "object"
                            THEN Grammar!ObjectSpec[Phase(CurrentFrame)]
                            ELSE Grammar!ArraySpec[Phase(CurrentFrame)]
    BY <2>1, <2>2 DEF Grammar!Allowed
  <2>4. CASE CurrentFrame.type = "array"
    <3>1. Phase(CurrentFrame) \in {"EMPTY", "AFTER_VALUE"}
      BY <2>1, <2>4, PhaseByParity
    <3>2. QED
      BY <1>1, <2>3, <2>4, <3>1 DEF Grammar!ArraySpec
  <2>5. CASE CurrentFrame.type = "object" /\ CurrentFrame.count % 2 = 1
    <3>1. Phase(CurrentFrame) = "AFTER_KEY"
      BY <2>1, <2>5, PhaseByParity
    <3>2. QED
      BY <1>1, <2>3, <2>5, <3>1 DEF Grammar!ObjectSpec
  <2>6. CASE CurrentFrame.type = "object" /\ e = "string"
    <3>1. Phase(CurrentFrame) \in {"EMPTY", "AFTER_KEY", "AFTER_VALUE"}
      BY DEF Phase
    <3>2. QED
      BY <1>1, <2>3, <2>6, <3>1 DEF Grammar!ObjectSpec
  <2>7. QED
    BY <1>3, <2>4, <2>5, <2>6
<1>4. QED
  BY <1>2, <1>3

LEMMA LeavingIsAllowed ==
  ASSUME StackInv, ~Latched, NEW t \in Container, NEW e, Leaves(t, e), ~AtTop,
         CurrentFrame.type = t, t = "object" => CurrentFrame.count % 2 = 0
  PROVE  e \in Grammar!Allowed
<1>1. /\ GrammarOpen # <<>> /\ Grammar!Inner = Row(CurrentFrame) /\ CurrentFrame \in Frame
  BY GrammarSees
<1>2. Grammar!Inner.type = CurrentFrame.type /\ Grammar!Inner.phase = Phase(CurrentFrame)
  BY <1>1, RowFacts
<1>3. Grammar!Allowed = IF CurrentFrame.type = "object"
                          THEN Grammar!ObjectSpec[Phase(CurrentFrame)]
                          ELSE Grammar!ArraySpec[Phase(CurrentFrame)]
  BY <1>1, <1>2 DEF Grammar!Allowed
<1>4. e = IF t = "array" THEN "array_end" ELSE "object_end"
  BY DEF Leaves
<1>5. CASE t = "array"
  <2>1. Phase(CurrentFrame) \in {"EMPTY", "AFTER_VALUE"}
    BY <1>1, <1>5, PhaseByParity
  <2>2. QED
    BY <1>3, <1>4, <1>5, <2>1 DEF Grammar!ArraySpec
<1>6. CASE t = "object"
  <2>1. Phase(CurrentFrame) # "AFTER_KEY"
    <3>1. ~(CurrentFrame.count % 2 = 1)
      BY <1>6
    <3>2. QED
      BY <1>1, <1>6, <3>1, PhaseByParity
  <2>2. Phase(CurrentFrame) \in {"EMPTY", "AFTER_VALUE"}
    BY <2>1 DEF Phase
  <2>3. QED
    BY <1>3, <1>4, <1>6, <2>2 DEF Grammar!ObjectSpec
<1>7. QED
  BY <1>5, <1>6 DEF Container

LEMMA DoneIsEmit ==
  ASSUME StackInv, ~Latched, AtTop, UNCHANGED <<stackVars, started>>, emitted' = "done"
  PROVE  Grammar!Emit("done")
<1>1. GrammarOpen = <<>> /\ GrammarOpen' = GrammarOpen
  <2>1. GrammarOpen' = GrammarOpen
    BY DEF GrammarOpen, stackVars, Latched, OpenDepth, OffTheEnd, Depth, TooDeep
  <2>2. QED
    BY <2>1, GrammarSees
<1>2. GrammarTop \in {"START", "AFTER_VALUE", "DONE"} /\ GrammarTop' = "DONE"
  BY DEF GrammarTop, stackVars, Latched
<1>3. "done" \in Grammar!Allowed
  <2>1. Grammar!Allowed = Grammar!TopSpec[GrammarTop]
    BY <1>1 DEF Grammar!Allowed
  <2>2. QED
    BY <1>2, <2>1 DEF Grammar!TopSpec
<1>4. GrammarOpen' = Grammar!OpenAfter("done")
  BY <1>1 DEF Grammar!OpenAfter, Grammar!Closing
<1>5. Latched' = Latched
  BY DEF Latched, stackVars
<1>6. QED
  BY <1>2, <1>3, <1>4, <1>5 DEF Grammar!Emit

LEMMA NewEventIsEmit ==
  ASSUME StackInv, StackInv', ~Latched, DoneInv, StartedInv, NEW e, e # "error", NewEvent(e)
  PROVE  Grammar!Emit(e)
<1>1. EventShape(e) /\ emitted' = e
  BY NewEventShape DEF NewEvent
<1>2. emitted = "done" => e = "done"
  BY DoneThenDone
<1>3. "done" \notin Value
  BY DEF Value, Literal
<1>4. CASE e = "done" /\ AtTop /\ UNCHANGED <<stackVars, started>>
  BY <1>1, <1>4, DoneIsEmit
<1>5. CASE AtTop /\ ~started /\ Enters(stack, e)
  <2>1. e \in Value /\ emitted # "done"
    BY <1>2, <1>3, <1>5 DEF Enters
  <2>2. QED
    BY <1>1, <1>5, <2>1, EnteringIsAllowed, EntersIsEmit
<1>6. HasFrame => ~AtTop
  BY DEF HasFrame, AtTop
<1>7. ASSUME HasFrame, Enters(Counted, e),
             \/ CurrentFrame.type = "array"
             \/ CurrentFrame.type = "object" /\ CurrentFrame.count % 2 = 1
             \/ CurrentFrame.type = "object" /\ e = "string"
      PROVE  Grammar!Emit(e)
  <2>1. e \in Value /\ emitted # "done"
    BY <1>2, <1>3, <1>7 DEF Enters
  <2>2. e \in Grammar!Allowed
    BY <1>6, <1>7, <2>1, EnteringIsAllowed
  <2>3. Enters(IF AtTop THEN stack ELSE Counted, e)
    BY <1>6, <1>7
  <2>4. QED
    BY <1>1, <2>1, <2>2, <2>3, EntersIsEmit
<1>8. ASSUME NEW t \in Container, HasFrame, CurrentFrame.type = t, Leaves(t, e),
             t = "object" => CurrentFrame.count % 2 = 0
      PROVE  Grammar!Emit(e)
  <2>1. emitted # "done"
    BY <1>2, <1>8 DEF Leaves
  <2>2. e \in Grammar!Allowed
    BY <1>6, <1>8, LeavingIsAllowed
  <2>3. QED
    BY <1>1, <1>6, <1>8, <2>1, <2>2, LeavesIsEmit
<1>9. QED
  BY <1>1, <1>4, <1>5, <1>7, <1>8 DEF EventShape, Container

LEMMA ErrorIsEmit ==
  ASSUME StackInv, ~Latched, DoneInv, NewEvent("error")
  PROVE  Grammar!EmitError
<1>1. Latched' /\ emitted' = "error"
  BY NewEventIsEffect DEF Effect, Latched, NewEvent
<1>2. GrammarOpen' = <<>> /\ GrammarTop' = "START"
  BY <1>1 DEF GrammarOpen, GrammarTop
<1>3. emitted # "done"
  BY DoneThenDone
<1>4. "error" \in Grammar!Allowed
  <2>1. CASE AtTop
    <3>1. GrammarOpen = <<>> /\ GrammarTop \in {"START", "AFTER_VALUE"}
      BY <1>3, <2>1, GrammarSees DEF GrammarTop
    <3>2. Grammar!Allowed = Grammar!TopSpec[GrammarTop]
      BY <3>1 DEF Grammar!Allowed
    <3>3. QED
      BY <3>1, <3>2 DEF Grammar!TopSpec
  <2>2. CASE ~AtTop
    <3>1. GrammarOpen # <<>> /\ Grammar!Inner = Row(CurrentFrame) /\ CurrentFrame \in Frame
      BY <2>2, GrammarSees
    <3>2. Grammar!Inner.type = CurrentFrame.type /\ Grammar!Inner.phase = Phase(CurrentFrame)
      BY <3>1, RowFacts
    <3>3. Grammar!Allowed = IF CurrentFrame.type = "object"
                              THEN Grammar!ObjectSpec[Phase(CurrentFrame)]
                              ELSE Grammar!ArraySpec[Phase(CurrentFrame)]
      BY <3>1, <3>2 DEF Grammar!Allowed
    <3>4. CASE CurrentFrame.type = "array"
      <4>1. Phase(CurrentFrame) \in {"EMPTY", "AFTER_VALUE"}
        BY <3>1, <3>4, PhaseByParity
      <4>2. QED
        BY <3>3, <3>4, <4>1 DEF Grammar!ArraySpec
    <3>5. CASE CurrentFrame.type = "object"
      <4>1. Phase(CurrentFrame) \in {"EMPTY", "AFTER_KEY", "AFTER_VALUE"}
        BY DEF Phase
      <4>2. QED
        BY <3>3, <3>5, <4>1 DEF Grammar!ObjectSpec
    <3>6. QED
      BY <3>1, <3>4, <3>5, RowFacts DEF Container
  <2>3. QED
    BY <2>1, <2>2
<1>5. QED
  BY <1>1, <1>2, <1>4 DEF Grammar!EmitError

(***************************************************************************)
(* The events json_next makes are those scripts/state-machine.py allows,   *)
(* in the states it tells apart, whatever calls deliver them: peeked,      *)
(* skipped, after resets, over refused allocations and changes of mode.    *)
(***************************************************************************)
THEOREM FollowsGrammar ==
  ASSUME Careful = TRUE
  PROVE  Spec => RefinesEventGrammar
<1> USE DEF Grammar!vars
<1>1. Init => Grammar!Init
  <2>1. SUFFICES ASSUME Init PROVE Grammar!Init
    OBVIOUS
  <2>2. ~Latched /\ AtTop /\ emitted = "none" /\ started = FALSE
    BY <2>1 DEF Init, StackInit, Latched, AtTop
  <2>3. StackInv
    BY <2>1, StackInvInit DEF Init
  <2>4. GrammarOpen = <<>> /\ GrammarTop = "START"
    BY <2>2, <2>3, GrammarSees DEF GrammarTop
  <2>5. Latched = FALSE
    BY <2>2
  <2>6. QED
    BY <2>2, <2>4, <2>5 DEF Grammar!Init
<1>2. ASSUME ParserInv, ParserInv', DoneInv, StartedInv, [Next]_vars
      PROVE  [Grammar!Next]_(Grammar!vars)
  <2>0. StackInv /\ StackInv'
    BY <1>2 DEF ParserInv
  <2>1. CASE UNCHANGED <<stackVars, started, emitted>>
    <3>1. UNCHANGED GrammarOpen
      BY <2>1 DEF GrammarOpen, stackVars, Latched, OpenDepth, OffTheEnd, Depth, TooDeep
    <3>2. UNCHANGED GrammarTop /\ UNCHANGED Latched
      BY <2>1 DEF GrammarTop, stackVars, Latched
    <3>3. QED
      BY <2>1, <3>1, <3>2
  <2>2. ASSUME NEW e \in Event, ~Latched, NewEvent(e) PROVE Grammar!Next
    <3>1. e \in Grammar!Event
      BY DEF Event, Value, Closing, Literal, Grammar!Event, Grammar!Value, Grammar!Closing
    <3>2. CASE e = "error"
      BY <1>2, <2>0, <2>2, <3>2, ErrorIsEmit DEF Grammar!Next
    <3>3. CASE e # "error"
      BY <1>2, <2>0, <2>2, <3>1, <3>3, NewEventIsEmit DEF Grammar!Next
    <3>4. QED
      BY <3>2, <3>3
  <2>3. CASE NextCall \/ SkipStep
    BY <2>1, <2>2, <2>3 DEF NextCall, SkipStep, NextEvent
  <2>4. CASE Peek
    BY <2>1, <2>2, <2>4 DEF Peek, parserVars
  <2>5. CASE Reset
    <3>1. ~Latched' /\ AtTop' /\ emitted' = "none" /\ started' = FALSE
      BY <2>5 DEF Reset, ResetStep, Latched, AtTop
    <3>2. Depth' = 0
      BY <3>1, IndexArithmetic DEF Depth, AtTop
    <3>3. GrammarOpen' = <<>> /\ GrammarTop' = "START"
      <4>1. GrammarOpen' = RowsOf(stack', 0)
        BY <2>0, <3>1, <3>2, GrammarSeesAfter
      <4>2. QED
        BY <3>1, <4>1, RowsOfNone DEF GrammarTop
    <3>4. Latched' = FALSE
      BY <3>1
    <3>5. QED
      BY <3>1, <3>3, <3>4 DEF Grammar!Reset, Grammar!Next
  <2>6. CASE BeginSkip \/ SetStreaming \/ SourceGet \/ SourcePeek \/ UNCHANGED vars
    BY <2>1, <2>6 DEF BeginSkip, SetStreaming, SourceGet, SourcePeek, vars, parserVars
  <2>7. QED
    BY <1>2, <2>3, <2>4, <2>5, <2>6 DEF Next
<1>3. QED
  BY <1>1, <1>2, ParserInvariant, DoneInvHolds, StartedInvHolds, PTL
     DEF Spec, RefinesEventGrammar, Grammar!Spec
=============================================================================
