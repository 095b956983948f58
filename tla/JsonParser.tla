----------------------------- MODULE JsonParser -----------------------------
(***************************************************************************)
(* The pull parser: nextEvent and the calls built on it (peek, skip, skip  *)
(* until, reset, set streaming, source get and peek), on top of the        *)
(* container stack.                                                        *)
(*                                                                         *)
(* One step is one call, except that skip and skipUntil take one step per  *)
(* event they consume.  Nothing runs concurrently in the parser; what is   *)
(* open is the input, the answers of the allocator and the order of calls. *)
(*                                                                         *)
(* The input is not fixed in advance.  src.left is how much of it is still *)
(* to come, in units of one structural byte or the tail of one token, and  *)
(* a byte is chosen when the code reads it; a byte that was only peeked is *)
(* kept in src.ahead, so that the next read returns the same one.  Bytes   *)
(* are the classes nextEvent and readValue tell apart.  Reading a string,  *)
(* a number or a literal is the contract of TokenReader, one outcome.      *)
(***************************************************************************)
EXTENDS ContainerStack, TokenContract

CONSTANTS
  MaxUnits,        \* bound: units of input
  Calls,           \* the calls the caller makes, besides json_next
  Targets,         \* the events it skips until
  Careful          \* the caller does not reset over a buffered event, and sets
                   \* the mode only between documents

ASSUME CallsAssumption ==
  /\ MaxUnits \in Nat
  /\ Calls \subseteq {"peek", "skip", "skip_until", "reset", "set_streaming",
                      "source_get", "source_peek"}
  /\ Targets \subseteq {"object", "object_end", "array", "array_end", "string",
                        "number", "true", "false", "null", "done", "error"}
  /\ Careful \in BOOLEAN

VARIABLES
  src,        \* the source: [left, ahead]
  started,    \* ntokens > 0
  streaming,  \* the streaming bit of flags
  next,       \* the event peek has buffered, or "none"
  token,      \* data.string: "null", "cut", or what a complete token was
  call,       \* the skip in progress, or Idle
  event,      \* what the last call returned, "none" after a reset
  emitted     \* the last event nextEvent made, "none" after a reset

inputVars  == <<src, token>>
parserVars == <<stackVars, src, started, streaming, next, token>>
vars       == <<parserVars, call, event, emitted>>

Literal == {"true", "false", "null"}
Value   == {"object", "array", "string", "number"} \union Literal
Closing == {"object_end", "array_end"}
Event   == Value \union Closing \union {"done", "error"}

Byte    == {"{", "[", "}", "]", ",", ":", "quote", "digit", "word", "other"}
Starter == {"{", "[", "quote", "digit", "word"}
Ahead   == Byte \union {"space", "eof", "none"}
Source  == [left : 0 .. MaxUnits, ahead : Ahead]

(* The end of the input stays the end. *)
AtEnd == [left |-> 0, ahead |-> "eof"]

(***************************************************************************)
(* One byte off the source: what get returns and the source after it.      *)
(* Whitespace is free, so that only bytes the grammar sees are counted.    *)
(***************************************************************************)
Took(s) == [left |-> s.left - 1, ahead |-> "none"]

Fresh(s) ==
  {[byte |-> "eof", rest |-> AtEnd]}
    \union (IF s.left = 0 THEN {} ELSE {[byte |-> b, rest |-> Took(s)] : b \in Byte})

(* nextChar: the next byte that is not whitespace. *)
NextChar(s) ==
  CASE s.ahead = "eof"              -> {[byte |-> "eof", rest |-> AtEnd]}
    [] s.ahead \in {"none", "space"} -> Fresh(s)
    [] OTHER                        -> {[byte |-> s.ahead, rest |-> Took(s)]}

(* The source after a peek that returned r.byte. *)
Peeked(s, r) == [left |-> r.rest.left + (IF r.byte = "eof" THEN 0 ELSE 1), ahead |-> r.byte]

(* srcGet and srcPeek see whitespace as any other byte. *)
Get(s) ==
  CASE s.ahead = "space" -> {[byte |-> "space", rest |-> [s EXCEPT !.ahead = "none"]]}
    [] s.ahead = "none"  -> Fresh(s) \union {[byte |-> "space", rest |-> s]}
    [] OTHER             -> NextChar(s)

Lookahead(s) ==
  {IF r.byte = "space" THEN [s EXCEPT !.ahead = "space"] ELSE Peeked(s, r) : r \in Get(s)}

-----------------------------------------------------------------------------
(***************************************************************************)
(* Reading a token: v is the value readValue returns, m the diagnostic.    *)
(***************************************************************************)
Keep(mem) == stack' = mem /\ UNCHANGED <<stackTop, stackSize>>

(* Reading a string or a number comes to one of the outcomes of the token
   contract; left says where each outcome leaves the source. *)
ReadToken(kind, left, v, m) ==
  \E o \in Outcomes(kind, token) :
    /\ v = o.value /\ m = o.errmsg
    /\ token' = o.token
    /\ src' \in left[o.token]

(* A token may be cut short by the end of the text, or at a byte the lexer
   has consumed: one it rejects, or one it finds no room for. *)
Consumed(rest) == IF rest.left = 0 THEN {} ELSE {Took(rest)}
CutShort(rest) == {rest, AtEnd} \union Consumed(rest)

ReadString(rest, v, m) ==
  ReadToken("string",
            [null |-> {rest}, cut |-> CutShort(rest), string |-> Consumed(rest)],
            v, m)

(* A number ends at a byte it has only peeked at, good or bad. *)
ReadNumber(rest, v, m) ==
  ReadToken("number",
            [null |-> {rest}, cut |-> CutShort(rest) \union Lookahead(rest),
             number |-> Lookahead(rest)],
            v, m)

IsMatch(rest, v, m) ==
  /\ UNCHANGED token
  /\ \/ /\ v \in Literal /\ m = "none"
        /\ src' \in Consumed(rest)
     \/ /\ v = "error" /\ m = "syntax"
        /\ src' \in {AtEnd} \union Consumed(rest)

(***************************************************************************)
(* readValue on the byte r.byte, with the stack's block already mem.       *)
(***************************************************************************)
ReadValue(r, mem, v, m) ==
  /\ started' = TRUE
  /\ \/ \E t \in Container :
          /\ r.byte = (IF t = "object" THEN "{" ELSE "[")
          /\ Push(mem, t, m)
          /\ v = IF m = "none" THEN t ELSE "error"
          /\ src' = r.rest /\ UNCHANGED token
     \/ /\ Keep(mem)
        /\ \/ r.byte = "quote" /\ ReadString(r.rest, v, m)
           \/ r.byte = "digit" /\ ReadNumber(r.rest, v, m)
           \/ r.byte = "word"  /\ IsMatch(r.rest, v, m)
           \/ /\ r.byte \notin Starter
              /\ v = "error" /\ m = "syntax"
              /\ src' = r.rest /\ UNCHANGED token

(* errStr and returning .err, with nothing else touched but the source. *)
Reject(rest, e) ==
  /\ e = "error" /\ errmsg' = "syntax"
  /\ src' = rest
  /\ UNCHANGED <<stack, stackTop, stackSize, started, token>>

(* pop, and the event the caller gets for it. *)
Close(t, rest, e) ==
  /\ \E m \in Message :
       /\ Pop(t, m)
       /\ errmsg' = m
       /\ e = IF m # "none" THEN "error"
              ELSE IF t = "array" THEN "array_end" ELSE "object_end"
  /\ src' = rest
  /\ UNCHANGED <<started, token>>

-----------------------------------------------------------------------------
(***************************************************************************)
(* nextEvent with no error latched and nothing buffered; e is the event.   *)
(***************************************************************************)
AtTop  == stackTop = Empty

(* A slip: every mode is taken for streaming mode. *)
AfterValueStreaming(e) ==
  /\ AtTop /\ started
  /\ e = "done"
  /\ UNCHANGED <<stackVars, inputVars, started>>

(* A complete value has been read.  Only outside streaming mode is the rest
   of the input looked at, and then without consuming what is not space. *)
AfterValue(e) ==
  /\ AtTop /\ started
  /\ UNCHANGED <<stack, stackTop, stackSize, started, token>>
  /\ \/ streaming /\ e = "done" /\ UNCHANGED <<src, errmsg>>
     \/ \E r \in NextChar(src) :
          /\ ~streaming /\ src' = Peeked(src, r)
          /\ IF r.byte = "eof" THEN e = "done"  /\ UNCHANGED errmsg
                               ELSE e = "error" /\ errmsg' = "syntax"

FirstValue(e) ==
  /\ AtTop /\ ~started
  /\ \E r \in NextChar(src) :
       IF r.byte = "eof" /\ streaming
         THEN /\ e = "done" /\ src' = r.rest
              /\ UNCHANGED <<stack, stackTop, stackSize, errmsg, started, token>>
         ELSE ReadValue(r, stack, e, errmsg')

(* "invalid parser state". *)
InvalidState(e) ==
  /\ e = "error" /\ errmsg' = "state"
  /\ \E r \in NextChar(src) : src' = r.rest
  /\ UNCHANGED <<stack, stackTop, stackSize, started, token>>

(* currentFrame found none. *)
NoFrame(e) == ~AtTop /\ ~HasFrame /\ InvalidState(e)

(* The else of the switch: a frame that is neither an array's nor an
   object's, as one that no push has written. *)
OtherFrame(e) == ~AtTop /\ HasFrame /\ CurrentFrame.type \notin Container /\ InvalidState(e)

InArray(e) ==
  /\ ~AtTop /\ HasFrame /\ CurrentFrame.type = "array"
  /\ \E r \in NextChar(src) :
       CASE r.byte = "]" -> Close("array", r.rest, e)
         [] r.byte # "]" /\ CurrentFrame.count = 0 -> ReadValue(r, Counted, e, errmsg')
         [] r.byte = "," /\ CurrentFrame.count # 0 ->
              \E r2 \in NextChar(r.rest) : ReadValue(r2, Counted, e, errmsg')
         [] OTHER -> Reject(r.rest, e)

(* A member name: the value must be a string, and only then is it counted. *)
ReadMember(r, e) ==
  \/ ReadValue(r, Counted, e, errmsg') /\ e = "string"
  \/ \E v \in Event \ {"string"}, m \in Message :
       /\ ReadValue(r, stack, v, m)
       /\ e = "error"
       /\ errmsg' = IF v = "error" THEN m ELSE "syntax"

(* A slip: an object may close between a name and its value. *)
InObjectClosingEarly(e) ==
  /\ ~AtTop /\ HasFrame /\ CurrentFrame.type = "object"
  /\ \E r \in NextChar(src) :
       \/ r.byte = "}" /\ Close("object", r.rest, e)
       \/ r.byte # "}" /\ CurrentFrame.count = 0 /\ ReadMember(r, e)

InObject(e) ==
  /\ ~AtTop /\ HasFrame /\ CurrentFrame.type = "object"
  /\ LET count == CurrentFrame.count IN
     \E r \in NextChar(src) :
       CASE r.byte = "}" /\ count % 2 = 0 -> Close("object", r.rest, e)
         [] r.byte # "}" /\ count = 0     -> ReadMember(r, e)
         [] r.byte = "," /\ count % 2 = 0 /\ count # 0 ->
              \E r2 \in NextChar(r.rest) : ReadMember(r2, e)
         [] r.byte = ":" /\ count % 2 = 1 ->
              \E r2 \in NextChar(r.rest) : ReadValue(r2, Counted, e, errmsg')
         [] OTHER -> Reject(r.rest, e)

NewEvent(e) ==
  /\ HasFrame => CountLeft
  /\ AfterValue(e) \/ FirstValue(e) \/ NoFrame(e) \/ OtherFrame(e)
       \/ InArray(e) \/ InObject(e)
  /\ emitted' = e

(***************************************************************************)
(* nextEvent: an error latched wins over an event buffered, and both over  *)
(* the source.                                                             *)
(***************************************************************************)
Latched == errmsg # "none"

(* A slip: the latch is not looked at. *)
NextEventUnlatched(e) ==
  \/ /\ next # "none" /\ e = next
     /\ next' = "none"
     /\ UNCHANGED <<stackVars, inputVars, started, emitted>>
  \/ /\ next = "none"
     /\ NewEvent(e)
     /\ UNCHANGED next

NextEvent(e) ==
  \/ /\ Latched /\ e = "error"
     /\ UNCHANGED <<stackVars, inputVars, started, next, emitted>>
  \/ /\ ~Latched /\ next # "none" /\ e = next
     /\ next' = "none"
     /\ UNCHANGED <<stackVars, inputVars, started, emitted>>
  \/ /\ ~Latched /\ next = "none"
     /\ NewEvent(e)
     /\ UNCHANGED next

-----------------------------------------------------------------------------
SkipCall ==
  [op : {"idle", "skip", "skip_until"}, target : Targets \union {"none"},
   first : Event \union {"none"}, arr : Nat, obj : Nat, base : Int]

(* The locals of skip as a call, or a turn of skipUntil, starts with them. *)
Skipping(op, target, base) ==
  [op |-> op, target |-> target, first |-> "none", arr |-> 0, obj |-> 0, base |-> base]

Idle == Skipping("idle", "none", 0)

(* The depth before the event that comes next, buffered or not. *)
BaseDepth ==
  CASE next \in Container -> Depth - 1
    [] next \in Closing   -> Depth + 1
    [] OTHER              -> Depth

Init ==
  /\ StackInit
  /\ src = [left |-> MaxUnits, ahead |-> "none"]
  /\ started = FALSE
  /\ streaming = TRUE
  /\ next = "none"
  /\ token = "null"
  /\ call = Idle
  /\ event = "none" /\ emitted = "none"

NextCall ==
  /\ call = Idle
  /\ \E e \in Event : NextEvent(e) /\ event' = e
  /\ UNCHANGED <<streaming, call>>

Peek ==
  /\ "peek" \in Calls /\ call = Idle
  /\ IF next # "none"
       THEN event' = next /\ UNCHANGED <<parserVars, emitted>>
       ELSE \E e \in Event :
              /\ \/ /\ Latched /\ e = "error"
                    /\ UNCHANGED <<stackVars, inputVars, started, emitted>>
                 \/ ~Latched /\ NewEvent(e)
              /\ next' = e /\ event' = e
              /\ UNCHANGED streaming
  /\ UNCHANGED call

BeginSkip ==
  /\ call = Idle
  /\ \E op \in {"skip", "skip_until"} \intersect Calls,
        t \in Targets \union {"none"} :
       /\ (op = "skip") <=> (t = "none")
       /\ call' = Skipping(op, t, BaseDepth)
  /\ event' = "none"
  /\ UNCHANGED <<parserVars, emitted>>

(* A slip: objects are not counted. *)
TallyArrays(c, e) ==
  [c EXCEPT !.first = IF @ = "none" THEN e ELSE @,
            !.arr = CASE e = "array"                -> @ + 1
                      [] e = "array_end" /\ @ > 0   -> @ - 1
                      [] OTHER                      -> @]

(* The counters of skip after the event e. *)
Tally(c, e) ==
  [c EXCEPT !.first = IF @ = "none" THEN e ELSE @,
            !.arr = CASE e = "array"                -> @ + 1
                      [] e = "array_end" /\ @ > 0   -> @ - 1
                      [] OTHER                      -> @,
            !.obj = CASE e = "object"               -> @ + 1
                      [] e = "object_end" /\ @ > 0  -> @ - 1
                      [] OTHER                      -> @]

Return(e) == call' = Idle /\ event' = e

(* A slip: the loop of skip is left on DONE, and not on ERROR. *)
SkipStepPastErrors ==
  /\ call # Idle
  /\ \E e \in Event :
       /\ NextEvent(e)
       /\ IF e = "done" THEN Return(e) ELSE call' = Tally(call, e) /\ UNCHANGED event
  /\ UNCHANGED streaming

(* One turn of the loop of skip, and of the loop of skipUntil around it. *)
SkipStep ==
  /\ call # Idle
  /\ \E e \in Event :
       /\ NextEvent(e)
       /\ LET c == Tally(call, e) IN
            CASE e \in {"error", "done"} -> Return(e)
              [] e \notin {"error", "done"} /\ (c.arr # 0 \/ c.obj # 0) ->
                   call' = c /\ UNCHANGED event
              [] OTHER ->
                   IF c.op = "skip" \/ c.first = c.target THEN Return(c.first)
                   ELSE /\ call' = Skipping(c.op, c.target, BaseDepth')
                        /\ UNCHANGED event
  /\ UNCHANGED streaming

(* reset keeps the buffered event and the token, as its comment says. *)
Reset ==
  /\ "reset" \in Calls /\ call = Idle
  /\ Careful => next = "none"
  /\ ResetStep
  /\ started' = FALSE
  /\ event' = "none" /\ emitted' = "none"
  /\ UNCHANGED <<src, streaming, next, token, call>>

SetStreaming ==
  /\ "set_streaming" \in Calls /\ call = Idle
  /\ Careful => emitted = "none"
  /\ streaming' = ~streaming
  /\ UNCHANGED <<stackVars, inputVars, started, next, call, event, emitted>>

SourceGet ==
  /\ "source_get" \in Calls /\ call = Idle
  /\ \E r \in Get(src) : src' = r.rest
  /\ UNCHANGED <<stackVars, started, streaming, next, token, call, event, emitted>>

SourcePeek ==
  /\ "source_peek" \in Calls /\ call = Idle
  /\ src' \in Lookahead(src)
  /\ UNCHANGED <<stackVars, started, streaming, next, token, call, event, emitted>>

Next ==
  \/ NextCall \/ Peek \/ BeginSkip \/ SkipStep
  \/ Reset \/ SetStreaming \/ SourceGet \/ SourcePeek

Spec == Init /\ [][Next]_vars

-----------------------------------------------------------------------------
ParserTypeOK ==
  /\ StackTypeOK
  /\ src \in Source
  /\ {started, streaming} \subseteq BOOLEAN
  /\ next \in Event \union {"none"}
  /\ token \in Buffer
  /\ call \in SkipCall
  /\ {event, emitted} \subseteq Event \union {"none"}

(***************************************************************************)
(* nextEvent never comes to either of its "invalid parser state": with a   *)
(* container open, currentFrame finds a frame, and one that a push wrote.  *)
(* A failed push does leave the index on no frame, or on one nobody wrote, *)
(* but only under a latched error.                                         *)
(***************************************************************************)
NeverInvalidState == errmsg # "state"

(***************************************************************************)
(* The two views json_get_depth and json_get_context give of the stack     *)
(* agree until an error: depth 0 exactly when the context is DONE.         *)
(* (rule_context_agrees_with_depth)                                        *)
(***************************************************************************)
ContextAgreesWithDepth == ~Latched => ((Depth = 0) <=> (Context = "done"))

(* An ERROR event carries a diagnostic.  (rule_error_has_message) *)
ErrorHasMessage == event = "error" => Latched

(***************************************************************************)
(* An error latches: until a reset no call changes the diagnostic, touches *)
(* the stack or the token, or has nextEvent read the source.               *)
(* (rule_error_is_latched)                                                 *)
(***************************************************************************)
ErrorIsLatched ==
  [][Latched /\ ~(call = Idle /\ emitted' = "none" /\ errmsg' = "none") =>
       /\ UNCHANGED <<stackVars, token, started>>
       /\ event' # event => event' \in {"error", "none", next}]_vars

(***************************************************************************)
(* The token buffer holds the token of the STRING or NUMBER event the last *)
(* call returned, complete, although a peek may have read it earlier and   *)
(* resets, source reads or a skip may lie between.                         *)
(***************************************************************************)
TokenBelongsToEvent ==
  call = Idle /\ event \in {"string", "number"} => token = event

(***************************************************************************)
(* skip leaves the caller beside the value it skipped: at the depth it     *)
(* started from, or one less when all it found was the end of a container. *)
(***************************************************************************)
SkipStaysBeside ==
  [][call # Idle /\ call' = Idle =>
       /\ event' \in Value => Depth' = call.base
       /\ event' \in Closing => Depth' = call.base - 1]_vars

(* Outside streaming mode DONE means that the input is exhausted. *)
DoneMeansExhausted ==
  [][event' = "done" /\ event # "done" /\ ~streaming => src'.ahead = "eof"]_vars

(* What is still to be read: units of input, and the event buffered. *)
Unread == 2 * src.left + (IF next = "none" THEN 0 ELSE 1)

(***************************************************************************)
(* Every turn of skip and skipUntil that does not return has consumed      *)
(* input, so both return from whatever state of the parser, whatever event *)
(* they look for; an error and DONE consume nothing, and must leave both   *)
(* loops.                                                                  *)
(***************************************************************************)
SkipAdvances == [][call # Idle /\ call' # Idle => Unread' < Unread]_vars

(* The parser drives the stack as ContainerStack assumes it is driven. *)
DrivesContainerStack == StackSpec

(***************************************************************************)
(* The events nextEvent makes are those of the grammar, whatever calls     *)
(* they are delivered through.                                             *)
(***************************************************************************)
Phase(frame) ==
  CASE frame.count = 0                                 -> "EMPTY"
    [] frame.type = "object" /\ frame.count % 2 = 1    -> "AFTER_KEY"
    [] OTHER                                           -> "AFTER_VALUE"

GrammarOpen ==
  IF Latched THEN <<>>
  ELSE [i \in 1 .. OpenDepth |-> [type  |-> stack[i - 1].type,
                                  phase |-> Phase(stack[i - 1])]]

GrammarTop ==
  IF Latched THEN "START"
  ELSE IF emitted = "done" THEN "DONE"
  ELSE IF started THEN "AFTER_VALUE"
  ELSE "START"

Grammar == INSTANCE EventGrammar WITH open <- GrammarOpen, top <- GrammarTop,
                                      failed <- Latched
RefinesEventGrammar == Grammar!Spec
=============================================================================
