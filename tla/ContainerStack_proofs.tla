------------------------ MODULE ContainerStack_proofs ------------------------
(***************************************************************************)
(* Proofs about the container stack, for every value of its constants.     *)
(*                                                                         *)
(* StackInv is inductive: StackTypeOK bounds the index and the block, and  *)
(* OpenFramesWritten says how far the index may run ahead of the frames.   *)
(* Neither is inductive alone: a push needs the index to lie inside the    *)
(* block to land at most one slot past it.                                 *)
(***************************************************************************)
EXTENDS ContainerStack, SequenceTheorems, TLAPS

StackInv == StackTypeOK /\ OpenFramesWritten

(* usize arithmetic away from the sentinel. *)
LEMMA IndexArithmetic ==
  /\ SizeMax \in Nat /\ Empty = SizeMax /\ StackInc \in Nat \ {0}
  /\ StackMax \in Nat /\ MaxFrames \in Nat /\ MaxCount \in Nat
  /\ Above(Empty) = 0
  /\ \A top \in 0 .. SizeMax : top # Empty => Above(top) = top + 1
  /\ \A top \in 0 .. SizeMax : Above(top) \in 0 .. SizeMax /\ Below(top) \in 0 .. SizeMax
  /\ MaxFrames < SizeMax /\ 0 # SizeMax
BY StackAssumption DEF StackAssumption, Above, Below, Empty

(* A new frame is a frame, and an unwritten slot is not. *)
LEMMA FrameFacts ==
  /\ \A t \in Container : NewFrame(t) \in Frame
  /\ Unwritten \notin Frame
<1>1. "unwritten" \notin Container
  BY DEF Container
<1>2. QED
  BY <1>1 DEF NewFrame, Frame, Unwritten

(***************************************************************************)
(* While nothing is latched the index is Empty or on a frame of the block, *)
(* and currentFrame finds it.                                              *)
(***************************************************************************)
LEMMA TopInsideBlock ==
  ASSUME StackInv, errmsg = "none"
  PROVE  /\ ~OffTheEnd
         /\ stackTop = Empty \/ stackTop \in 0 .. stackSize - 1
         /\ Depth \in 0 .. stackSize /\ Depth \in 0 .. SizeMax /\ Depth # Empty
         /\ stackTop # Empty => HasFrame /\ Depth = stackTop + 1 /\ CurrentFrame \in Frame
         /\ stackTop = Empty => Depth = 0
         /\ OpenDepth = Depth
<1>1. ~OffTheEnd
  BY DEF StackInv, OpenFramesWritten
<1>2. stackTop = Empty \/ stackTop \in 0 .. stackSize - 1
  BY <1>1 DEF StackInv, StackTypeOK, OffTheEnd
<1>3. stackTop = Empty => Depth = 0
  BY IndexArithmetic DEF Depth
<1>4. stackTop # Empty => Depth = stackTop + 1
  BY IndexArithmetic DEF Depth, StackInv, StackTypeOK
<1>5. stackTop # Empty => HasFrame /\ CurrentFrame \in Frame
  <2>1. SUFFICES ASSUME stackTop # Empty PROVE HasFrame /\ CurrentFrame \in Frame
    OBVIOUS
  <2>2. stackTop \in 0 .. OpenDepth - 1
    BY <1>1, <1>2, <1>4, <2>1 DEF OpenDepth, StackInv, StackTypeOK
  <2>3. stack[stackTop] \in Frame \union {Unwritten} /\ stack[stackTop] # Unwritten
    BY <1>2, <2>1, <2>2 DEF StackInv, StackTypeOK, OpenFramesWritten
  <2>4. QED
    BY <1>2, <2>1, <2>3 DEF HasFrame, CurrentFrame, StackInv, StackTypeOK
<1>6. Depth \in 0 .. stackSize
  BY <1>2, <1>3, <1>4 DEF StackInv, StackTypeOK
<1>7. Depth \in 0 .. SizeMax /\ Depth # Empty
  <2>1. stackSize \in Nat /\ stackSize < SizeMax
    BY IndexArithmetic DEF StackInv, StackTypeOK
  <2>2. SizeMax \in Nat /\ Empty = SizeMax
    BY IndexArithmetic
  <2>3. QED
    BY <1>6, <2>1, <2>2
<1>8. QED
  BY <1>1, <1>2, <1>3, <1>4, <1>5, <1>6, <1>7 DEF OpenDepth

(***************************************************************************)
(* Counting an element changes one count of one written frame.             *)
(***************************************************************************)
LEMMA CountedFacts ==
  ASSUME StackInv, errmsg = "none", HasFrame
  PROVE  /\ Counted \in [0 .. stackSize - 1 -> Frame \union {Unwritten}]
         /\ Counted[stackTop] = [type |-> CurrentFrame.type, count |-> CurrentFrame.count + 1]
         /\ Counted[stackTop] \in Frame
         /\ \A i \in 0 .. stackSize - 1 : i # stackTop => Counted[i] = stack[i]
<1>1. stackTop \in 0 .. stackSize - 1 /\ CurrentFrame \in Frame
  BY TopInsideBlock DEF HasFrame
<1>2. DOMAIN stack = 0 .. stackSize - 1
  BY DEF StackInv, StackTypeOK
<1>3. Counted[stackTop] = [CurrentFrame EXCEPT !.count = @ + 1]
  BY <1>1, <1>2 DEF Counted, CurrentFrame
<1>4. Counted[stackTop] = [type |-> CurrentFrame.type, count |-> CurrentFrame.count + 1]
  BY <1>1, <1>3 DEF Frame
<1>5. Counted[stackTop] \in Frame
  BY <1>1, <1>4 DEF Frame
<1>6. QED
  BY <1>1, <1>2, <1>4, <1>5 DEF Counted, StackInv, StackTypeOK

(***************************************************************************)
(* The blocks a step may push on: the one there is, or that one with the   *)
(* enclosing container's count advanced.                                   *)
(***************************************************************************)
Block(mem) ==
  /\ mem \in [0 .. stackSize - 1 -> Frame \union {Unwritten}]
  /\ \A i \in 0 .. Depth - 1 : mem[i] \in Frame

LEMMA StackIsBlock ==
  ASSUME StackInv, errmsg = "none"
  PROVE  Block(stack) /\ (HasFrame => Block(Counted))
<1>1. Block(stack)
  <2>1. \A i \in 0 .. Depth - 1 : i \in 0 .. stackSize - 1 /\ stack[i] # Unwritten
    BY TopInsideBlock DEF StackInv, StackTypeOK, OpenFramesWritten
  <2>2. QED
    BY <2>1 DEF Block, StackInv, StackTypeOK
<1>2. ASSUME HasFrame PROVE Block(Counted)
  <2>1. \A i \in 0 .. Depth - 1 : i \in 0 .. stackSize - 1 /\ stack[i] \in Frame
    BY <1>1, TopInsideBlock DEF Block, StackInv, StackTypeOK
  <2>2. QED
    BY <1>2, <2>1, CountedFacts DEF Block
<1>3. QED
  BY <1>1, <1>2

(***************************************************************************)
(* push keeps the invariant whichever way it ends, because the error it    *)
(* records covers the slot it leaves the index on.                         *)
(***************************************************************************)
LEMMA PushKeepsInv ==
  ASSUME StackInv, errmsg = "none",
         NEW mem, Block(mem), NEW t \in Container, NEW m \in Message,
         Push(mem, t, m), (errmsg' = "none") => m = "none", errmsg' \in Message
  PROVE  StackInv'
<1> DEFINE top == Above(stackTop)
<1>0. /\ top = Depth /\ top \in 0 .. stackSize /\ top \in 0 .. SizeMax /\ top # Empty
      /\ stackSize \in Nat /\ stackSize <= MaxFrames
      /\ stackTop' = top /\ Above(top) = top + 1
  <2>1. top = Depth /\ stackTop' = top
    BY DEF Depth, Push
  <2>2. stackSize \in Nat /\ stackSize <= MaxFrames /\ top \in 0 .. stackSize
    BY <2>1, TopInsideBlock, IndexArithmetic DEF StackInv, StackTypeOK
  <2>3. top \in 0 .. SizeMax /\ top # Empty
    BY <2>2, IndexArithmetic
  <2>4. Above(top) = top + 1
    BY <2>3, IndexArithmetic
  <2>5. QED
    BY <2>1, <2>2, <2>3, <2>4
<1>1. CASE /\ TooDeep(top) /\ m = "depth"
           /\ stack' = mem /\ UNCHANGED stackSize
  <2>1. OffTheEnd' /\ OpenDepth' = top
    BY <1>0, <1>1 DEF OffTheEnd, OpenDepth, TooDeep
  <2>2. StackTypeOK'
    BY <1>0, <1>1 DEF StackTypeOK, StackInv, Block
  <2>3. OpenFramesWritten'
    BY <1>0, <1>1, <2>1, FrameFacts DEF OpenFramesWritten, Block
  <2>4. QED
    BY <2>2, <2>3 DEF StackInv
<1>2. CASE /\ ~TooDeep(top) /\ top >= stackSize /\ m = "oom"
           /\ stack' = mem /\ UNCHANGED stackSize
  <2>1. OffTheEnd' /\ OpenDepth' = top
    BY <1>0, <1>2 DEF OffTheEnd, OpenDepth
  <2>2. StackTypeOK'
    BY <1>0, <1>2 DEF StackTypeOK, StackInv, Block
  <2>3. OpenFramesWritten'
    BY <1>0, <1>2, <2>1, FrameFacts DEF OpenFramesWritten, Block
  <2>4. QED
    BY <2>2, <2>3 DEF StackInv
<1>3. CASE /\ ~TooDeep(top) /\ top >= stackSize /\ m = "none"
           /\ stackSize + StackInc <= MaxFrames
           /\ stackSize' = stackSize + StackInc
           /\ stack' = [Grown(mem) EXCEPT ![top] = NewFrame(t)]
  <2>1. /\ top = stackSize /\ stackSize' \in Nat /\ top \in 0 .. stackSize' - 1
        /\ top + 1 <= stackSize'
    BY <1>0, <1>3, IndexArithmetic
  <2>2. Grown(mem) \in [0 .. stackSize' - 1 -> Frame \union {Unwritten}]
    BY <1>0, <1>3, IndexArithmetic DEF Grown, Block
  <2>3. stack' \in [0 .. stackSize' - 1 -> Frame \union {Unwritten}]
    BY <1>3, <2>1, <2>2, FrameFacts
  <2>4. ~OffTheEnd' /\ OpenDepth' = top + 1
    BY <1>0, <1>3, <2>1 DEF OffTheEnd, OpenDepth, TooDeep, Depth
  <2>5. ASSUME NEW i \in 0 .. top PROVE stack'[i] \in Frame
    <3>1. CASE i = top
      BY <1>3, <2>1, <2>2, <3>1, FrameFacts
    <3>2. CASE i # top
      <4>1. i \in 0 .. Depth - 1 /\ i < stackSize /\ i \in 0 .. stackSize + StackInc - 1
        BY <1>0, <2>1, <3>2, IndexArithmetic
      <4>2. stack'[i] = Grown(mem)[i] /\ Grown(mem)[i] = mem[i]
        BY <1>3, <2>2, <3>2, <4>1, IndexArithmetic DEF Grown
      <4>3. QED
        BY <4>1, <4>2 DEF Block
    <3>3. QED
      BY <3>1, <3>2
  <2>6. OpenFramesWritten'
    <3>1. OpenDepth' <= stackSize'
      BY <2>1, <2>4
    <3>2. ASSUME NEW i \in 0 .. OpenDepth' - 1 PROVE stack'[i] # Unwritten
      <4>1. i \in 0 .. top
        BY <1>0, <2>4
      <4>2. QED
        BY <2>5, <4>1, FrameFacts
    <3>3. QED
      BY <2>4, <3>1, <3>2 DEF OpenFramesWritten
  <2>7. QED
    BY <1>0, <1>3, <2>1, <2>3, <2>6 DEF StackInv, StackTypeOK
<1>4. CASE /\ ~TooDeep(top) /\ top < stackSize /\ m = "none"
           /\ stack' = [mem EXCEPT ![top] = NewFrame(t)]
           /\ UNCHANGED stackSize
  <2>1. stack' \in [0 .. stackSize' - 1 -> Frame \union {Unwritten}]
    BY <1>0, <1>4, FrameFacts DEF Block
  <2>2. ~OffTheEnd' /\ OpenDepth' = top + 1
    BY <1>0, <1>4 DEF OffTheEnd, OpenDepth, TooDeep, Depth
  <2>3. \A i \in 0 .. top : stack'[i] \in Frame
    BY <1>0, <1>4, FrameFacts DEF Block
  <2>4. OpenFramesWritten'
    BY <1>0, <1>4, <2>2, <2>3, FrameFacts DEF OpenFramesWritten
  <2>5. QED
    BY <1>0, <1>4, <2>1, <2>4 DEF StackInv, StackTypeOK
<1>5. (~NeedsGrowth(top)) <=> top < stackSize
  BY <1>0 DEF NeedsGrowth
<1>6. QED
  BY <1>1, <1>2, <1>3, <1>4, <1>5 DEF Push, NeedsGrowth

(* The invariant holds of a stream json_open has just initialised. *)
LEMMA StackInvInit == StackInit => StackInv
BY IndexArithmetic
   DEF StackInit, StackInv, StackTypeOK, OpenFramesWritten, OffTheEnd,
       OpenDepth, Depth, Message

(* Every operation keeps it. *)
LEMMA StackInvKept == StackInv /\ [StackNext]_stackVars => StackInv'
<1> SUFFICES ASSUME StackInv, [StackNext]_stackVars PROVE StackInv'
  OBVIOUS
<1>1. CASE PushStep
  <2>1. PICK t \in Container, m \in Message, mem \in Blocks :
          /\ Push(mem, t, m)
          /\ errmsg' = m \/ (m = "none" /\ errmsg' = "syntax")
          /\ mem = stack \/ (mem = Counted /\ HasFrame)
    BY <1>1 DEF PushStep, Blocks, CountLeft
  <2>2. errmsg = "none" /\ Block(mem) /\ errmsg' \in Message
    BY <1>1, <2>1, StackIsBlock DEF PushStep, Message
  <2>3. QED
    BY <2>1, <2>2, PushKeepsInv
<1>2. CASE PopStep
  <2>1. PICK t \in Container, m \in Message : Pop(t, m) /\ errmsg' = m
    BY <1>2 DEF PopStep
  <2>2. errmsg = "none"
    BY <1>2 DEF PopStep
  <2>3. CASE UNCHANGED stackTop
    BY <2>1, <2>2, <2>3, TopInsideBlock
       DEF Pop, StackInv, StackTypeOK, OpenFramesWritten, OffTheEnd, OpenDepth, Depth
  <2>4. CASE HasFrame /\ stackTop' = Below(stackTop) /\ m = "none"
    <3>1. /\ stackTop \in 0 .. stackSize - 1 /\ Depth = stackTop + 1
          /\ stackSize' = stackSize /\ stack' = stack
      BY <2>1, <2>2, <2>4, TopInsideBlock DEF HasFrame, Pop
    <3>2. StackTypeOK'
      BY <2>1, <2>4, <3>1, IndexArithmetic DEF StackInv, StackTypeOK
    <3>3. ~OffTheEnd' /\ OpenDepth' = stackTop
      <4>1. CASE stackTop = 0
        BY <2>4, <3>1, <4>1, IndexArithmetic
           DEF Below, OffTheEnd, OpenDepth, Depth, Empty
      <4>2. CASE stackTop # 0
        <5>1. stackTop' = stackTop - 1 /\ stackTop' # Empty /\ Above(stackTop') = stackTop
          BY <2>4, <3>1, <4>2, IndexArithmetic DEF Below, Above, StackInv, StackTypeOK
        <5>2. ~TooDeep(stackTop)
          BY <2>2, <2>4, TopInsideBlock DEF OffTheEnd, HasFrame
        <5>3. ~TooDeep(stackTop')
          BY <3>1, <5>1, <5>2, IndexArithmetic DEF TooDeep
        <5>4. ~OffTheEnd'
          BY <3>1, <4>2, <5>1, <5>3 DEF OffTheEnd, StackInv, StackTypeOK, TooDeep
        <5>5. QED
          BY <5>1, <5>4 DEF OpenDepth, Depth
      <4>3. QED
        BY <4>1, <4>2
    <3>4. OpenDepth = stackTop + 1 /\ stackSize \in Nat
      BY <2>2, <3>1, TopInsideBlock DEF StackInv, StackTypeOK
    <3>5. OpenFramesWritten'
      BY <3>1, <3>3, <3>4 DEF StackInv, OpenFramesWritten
    <3>6. QED
      BY <3>2, <3>5 DEF StackInv
  <2>5. QED
    BY <2>1, <2>3, <2>4 DEF Pop
<1>3. CASE CountStep
  <2>1. Block(Counted) /\ ~OffTheEnd /\ OpenDepth = Depth /\ Depth \in 0 .. stackSize
    BY <1>3, StackIsBlock, TopInsideBlock DEF CountStep, CountLeft
  <2>2. ~OffTheEnd' /\ OpenDepth' = Depth
    BY <1>3, <2>1 DEF CountStep, OffTheEnd, OpenDepth, Depth, TooDeep
  <2>3. OpenFramesWritten'
    BY <1>3, <2>1, <2>2, FrameFacts DEF CountStep, OpenFramesWritten, Block
  <2>4. QED
    BY <1>3, <2>1, <2>3 DEF CountStep, StackInv, StackTypeOK, Block
<1>4. CASE FailStep
  <2>1. /\ errmsg = "none" /\ stack' \in {stack, Counted} /\ Block(stack')
        /\ errmsg' \in Message /\ UNCHANGED <<stackTop, stackSize>>
    BY <1>4, StackIsBlock DEF FailStep, Blocks, CountLeft
  <2>2. ~OffTheEnd /\ OpenDepth = Depth /\ Depth \in 0 .. stackSize
    BY <2>1, TopInsideBlock
  <2>3. ~OffTheEnd' /\ OpenDepth' = Depth
    BY <2>1, <2>2 DEF OffTheEnd, OpenDepth, Depth, TooDeep
  <2>4. OpenFramesWritten'
    BY <2>1, <2>2, <2>3, FrameFacts DEF OpenFramesWritten, Block
  <2>5. QED
    BY <2>1, <2>4 DEF StackInv, StackTypeOK, Block
<1>5. CASE ResetStep
  <2>1. ~OffTheEnd' /\ OpenDepth' = 0
    BY <1>5, IndexArithmetic DEF ResetStep, OffTheEnd, OpenDepth, Depth
  <2>2. StackTypeOK'
    BY <1>5, IndexArithmetic DEF ResetStep, StackInv, StackTypeOK, Message
  <2>3. stackSize' \in Nat
    BY <2>2 DEF StackTypeOK
  <2>4. OpenFramesWritten'
    BY <2>1, <2>3 DEF OpenFramesWritten
  <2>5. QED
    BY <2>2, <2>4 DEF StackInv
<1>6. CASE UNCHANGED stackVars
  BY <1>6 DEF stackVars, StackInv, StackTypeOK, OpenFramesWritten, OffTheEnd,
                    OpenDepth, Depth, TooDeep
<1>7. QED
  BY <1>1, <1>2, <1>3, <1>4, <1>5, <1>6 DEF StackNext

(***************************************************************************)
(* json_get_depth, json_get_context and the parser agree on one picture of *)
(* the stack: every container counted as open has a frame push wrote, and  *)
(* the index leaves the frames by one slot, only under a latched error.    *)
(***************************************************************************)
THEOREM StackInvariant == StackSpec => []StackInv
BY StackInvInit, StackInvKept, PTL DEF StackSpec

(***************************************************************************)
(* The index and the block keep their types however push, pop and reset    *)
(* follow one another: stack_top wraps to SIZE_MAX and back, and to no     *)
(* other value outside the block.                                          *)
(***************************************************************************)
THEOREM StackTypeCorrect == StackSpec => []StackTypeOK
<1>1. StackInv => StackTypeOK
  BY DEF StackInv
<1>2. QED
  BY <1>1, StackInvariant, PTL

(***************************************************************************)
(* currentFrame, which tests nothing but the bounds of the block, gives    *)
(* nextEvent frames push wrote; a failed push hides behind the error.      *)
(***************************************************************************)
THEOREM OpenFramesAlwaysWritten == StackSpec => []OpenFramesWritten
<1>1. StackInv => OpenFramesWritten
  BY DEF StackInv
<1>2. QED
  BY <1>1, StackInvariant, PTL

(***************************************************************************)
(* What -Dstack-max enforces, for every limit: push tests the index and    *)
(* not the depth, so one container more than the limit may be open.        *)
(***************************************************************************)
THEOREM LimitIsOffByOne == StackSpec => []NestingWithinLimitPlusOne
<1>1. StackInv => NestingWithinLimitPlusOne
  <2>1. SUFFICES ASSUME StackInv, StackMax # 0, errmsg = "none"
                 PROVE  Depth <= StackMax + 1
    BY DEF NestingWithinLimitPlusOne
  <2>2. /\ ~OffTheEnd
        /\ stackTop = Empty => Depth = 0
        /\ stackTop # Empty => stackTop \in 0 .. stackSize - 1 /\ Depth = stackTop + 1
    BY <2>1, TopInsideBlock
  <2>3. CASE stackTop = Empty
    BY <2>2, <2>3, IndexArithmetic
  <2>4. CASE stackTop # Empty
    <3>1. ~TooDeep(stackTop)
      BY <2>2, <2>4 DEF OffTheEnd
    <3>2. stackTop <= StackMax
      BY <2>1, <2>2, <2>4, <3>1, IndexArithmetic DEF TooDeep, StackInv, StackTypeOK
    <3>3. QED
      BY <2>1, <2>2, <2>4, <3>2, IndexArithmetic DEF StackInv, StackTypeOK
  <2>5. QED
    BY <2>3, <2>4
<1>2. QED
  BY <1>1, StackInvariant, PTL

(***************************************************************************)
(* In the default build, which sets no limit, json_get_context reads only  *)
(* frames push has written, whatever was refused before.                   *)
(***************************************************************************)
THEOREM ContextReadsWrittenFrames ==
  ASSUME StackMax = 0
  PROVE  StackSpec => []CurrentFrameWritten
<1>1. StackInv => CurrentFrameWritten
  <2>1. SUFFICES ASSUME StackInv, HasFrame PROVE CurrentFrame # Unwritten
    BY DEF CurrentFrameWritten
  <2>2. ~OffTheEnd /\ stackTop \in 0 .. SizeMax /\ Depth = stackTop + 1
    BY <2>1, IndexArithmetic
       DEF HasFrame, OffTheEnd, TooDeep, Depth, StackInv, StackTypeOK
  <2>3. stackTop \in 0 .. OpenDepth - 1
    BY <2>2 DEF OpenDepth
  <2>4. QED
    BY <2>1, <2>3 DEF StackInv, OpenFramesWritten, CurrentFrame
<1>2. QED
  BY <1>1, StackInvariant, PTL

-----------------------------------------------------------------------------
(***************************************************************************)
(* A push that succeeds: the new frame is written just above those that    *)
(* were open, which stay as the block given held them.                     *)
(***************************************************************************)
LEMMA PushEffect ==
  ASSUME StackInv, StackInv', errmsg = "none", NEW mem, Block(mem), NEW t, Push(mem, t, "none")
  PROVE  /\ stackTop' = Depth /\ OpenDepth' = Depth + 1 /\ Depth' = Depth + 1
         /\ ~OffTheEnd'
         /\ stack'[Depth] = NewFrame(t)
         /\ \A i \in 0 .. Depth - 1 : stack'[i] = mem[i]
<1>1. /\ stackTop' = Depth /\ Depth # Empty /\ Depth \in 0 .. SizeMax
      /\ Depth \in 0 .. stackSize /\ stackSize \in Nat
  BY TopInsideBlock DEF Push, NeedsGrowth, Depth, StackInv, StackTypeOK
<1>2. stackTop' < stackSize' /\ ~TooDeep(stackTop')
  BY <1>1, IndexArithmetic DEF Push, NeedsGrowth, Depth, TooDeep
<1>3. stackSize' \in Nat
  BY DEF StackInv, StackTypeOK
<1>4. ~OffTheEnd'
  BY <1>1, <1>2, <1>3 DEF OffTheEnd
<1>5. OpenDepth' = Depth + 1 /\ Depth' = Depth + 1
  BY <1>1, <1>4, IndexArithmetic DEF OpenDepth, Depth
<1>6. /\ stack'[Depth] = NewFrame(t)
      /\ \A i \in 0 .. Depth - 1 : stack'[i] = mem[i]
  <2>1. CASE Depth >= stackSize
    <3>1. Depth = stackSize /\ stack' = [Grown(mem) EXCEPT ![Depth] = NewFrame(t)]
      BY <1>1, <2>1 DEF Push, NeedsGrowth, Depth
    <3>2. /\ DOMAIN Grown(mem) = 0 .. stackSize + StackInc - 1
          /\ \A i \in 0 .. Depth - 1 : Grown(mem)[i] = mem[i]
      BY <1>1, <3>1, IndexArithmetic DEF Grown
    <3>3. Depth \in DOMAIN Grown(mem)
      BY <1>1, <3>1, <3>2, IndexArithmetic
    <3>4. QED
      BY <1>1, <3>1, <3>2, <3>3, IndexArithmetic
  <2>2. CASE Depth < stackSize
    <3>1. stack' = [mem EXCEPT ![Depth] = NewFrame(t)]
      BY <1>1, <2>2 DEF Push, NeedsGrowth, Depth
    <3>2. QED
      BY <1>1, <2>2, <3>1 DEF Block
  <2>3. QED
    BY <1>1, <2>1, <2>2
<1>7. QED
  BY <1>1, <1>4, <1>5, <1>6

(* A pop that succeeds: one container fewer, and every frame as it was. *)
LEMMA PopEffect ==
  ASSUME StackInv, StackInv', errmsg = "none", errmsg' = "none", NEW t, Pop(t, "none")
  PROVE  /\ HasFrame /\ CurrentFrame.type = t
         /\ stackTop \in Nat /\ Depth = stackTop + 1
         /\ Depth' = stackTop /\ OpenDepth' = stackTop
         /\ UNCHANGED stack
<1>1. HasFrame /\ CurrentFrame.type = t /\ stackTop' = Below(stackTop) /\ UNCHANGED stack
  BY DEF Pop
<1>2. Depth = stackTop + 1 /\ stackTop \in Nat /\ stackTop # Empty /\ stackTop <= SizeMax
  BY <1>1, TopInsideBlock DEF HasFrame, StackInv, StackTypeOK
<1>3. ~OffTheEnd'
  BY DEF StackInv, OpenFramesWritten
<1>4. Depth' = stackTop
  <2>1. CASE stackTop = 0
    BY <1>1, <2>1, IndexArithmetic DEF Below, Depth, Empty
  <2>2. CASE stackTop # 0
    BY <1>1, <1>2, <2>2, IndexArithmetic DEF Below, Depth, Above, Empty
  <2>3. QED
    BY <2>1, <2>2
<1>5. QED
  BY <1>1, <1>2, <1>3, <1>4 DEF OpenDepth

-----------------------------------------------------------------------------
(***************************************************************************)
(* The block read as a sequence of frames.                                 *)
(***************************************************************************)
LEMMA FramesOfIsSeq ==
  ASSUME NEW mem, NEW n \in Nat, \A i \in 0 .. n - 1 : mem[i] \in Frame
  PROVE  /\ FramesOf(mem, n) \in Seq(Frame)
         /\ Len(FramesOf(mem, n)) = n
         /\ \A i \in 1 .. n : FramesOf(mem, n)[i] = mem[i - 1]
<1>1. \A i \in 1 .. n : mem[i - 1] \in Frame
  OBVIOUS
<1>2. FramesOf(mem, n) \in [1 .. n -> Frame]
  BY <1>1 DEF FramesOf
<1>3. FramesOf(mem, n) \in Seq(Frame)
  BY <1>2, SeqDef
<1>4. DOMAIN FramesOf(mem, n) = 1 .. Len(FramesOf(mem, n)) /\ Len(FramesOf(mem, n)) \in Nat
  BY <1>3, LenProperties
<1>5. Len(FramesOf(mem, n)) = n
  BY <1>2, <1>4
<1>6. QED
  BY <1>3, <1>5 DEF FramesOf

LEMMA FramesOfNone ==
  ASSUME NEW mem
  PROVE  FramesOf(mem, 0) = <<>>
<1>1. FramesOf(mem, 0) \in Seq(Frame) /\ Len(FramesOf(mem, 0)) = 0
  BY FramesOfIsSeq
<1>2. QED
  BY <1>1, EmptySeq

LEMMA FramesOfAgree ==
  ASSUME NEW mem, NEW mem2, NEW n \in Nat, \A i \in 0 .. n - 1 : mem[i] = mem2[i]
  PROVE  FramesOf(mem, n) = FramesOf(mem2, n)
<1>1. \A i \in 1 .. n : mem[i - 1] = mem2[i - 1]
  OBVIOUS
<1>2. QED
  BY <1>1 DEF FramesOf

LEMMA FramesOfAppend ==
  ASSUME NEW mem, NEW mem2, NEW n \in Nat,
         \A i \in 0 .. n - 1 : mem[i] \in Frame /\ mem2[i] = mem[i],
         mem2[n] \in Frame
  PROVE  FramesOf(mem2, n + 1) = Append(FramesOf(mem, n), mem2[n])
<1> DEFINE s == FramesOf(mem, n)
           l == FramesOf(mem2, n + 1)
           r == Append(FramesOf(mem, n), mem2[n])
<1>1. s \in Seq(Frame) /\ Len(s) = n /\ \A i \in 1 .. n : s[i] = mem[i - 1]
  BY FramesOfIsSeq
<1>2. /\ r \in Seq(Frame) /\ Len(r) = n + 1 /\ r[n + 1] = mem2[n]
      /\ \A i \in 1 .. n : r[i] = mem[i - 1]
  BY <1>1, AppendProperties
<1>3. \A i \in 0 .. (n + 1) - 1 : mem2[i] \in Frame
  OBVIOUS
<1>4. l \in Seq(Frame) /\ Len(l) = n + 1 /\ \A i \in 1 .. n + 1 : l[i] = mem2[i - 1]
  BY <1>3, FramesOfIsSeq
<1>5. ASSUME NEW i \in 1 .. n + 1 PROVE l[i] = r[i]
  <2>1. CASE i = n + 1
    BY <1>2, <1>4, <2>1
  <2>2. CASE i # n + 1
    <3>1. i \in 1 .. n /\ i - 1 \in 0 .. n - 1
      BY <2>2
    <3>2. QED
      BY <1>2, <1>4, <3>1
  <2>3. QED
    BY <2>1, <2>2
<1> HIDE DEF l, r
<1>6. l = r
  BY <1>2, <1>4, <1>5, SeqEqual
<1>7. QED
  BY <1>6 DEF l, r

LEMMA FramesOfShorter ==
  ASSUME NEW mem, NEW n \in Nat, \A i \in 0 .. n : mem[i] \in Frame
  PROVE  FramesOf(mem, n) = SubSeq(FramesOf(mem, n + 1), 1, Len(FramesOf(mem, n + 1)) - 1)
<1> DEFINE l == FramesOf(mem, n)
           s == FramesOf(mem, n + 1)
           r == SubSeq(s, 1, n)
<1>1. l \in Seq(Frame) /\ Len(l) = n /\ \A i \in 1 .. n : l[i] = mem[i - 1]
  BY FramesOfIsSeq
<1>2. \A i \in 0 .. (n + 1) - 1 : mem[i] \in Frame
  OBVIOUS
<1>3. s \in Seq(Frame) /\ Len(s) = n + 1 /\ \A i \in 1 .. n + 1 : s[i] = mem[i - 1]
  BY <1>2, FramesOfIsSeq
<1>4. \A i \in 1 .. n : s[i] \in Frame /\ s[i] = mem[i - 1]
  BY <1>2, <1>3
<1> HIDE DEF s
<1>5. r \in Seq(Frame) /\ Len(r) = n /\ \A i \in 1 .. n : r[i] = s[i]
  BY <1>4, SubSeqProperties
<1> HIDE DEF l, r
<1>6. l = r
  BY <1>1, <1>4, <1>5, SeqEqual
<1>7. QED
  BY <1>3, <1>6 DEF l, r, s

LEMMA FramesOfCounted ==
  ASSUME StackInv, errmsg = "none", HasFrame
  PROVE  FramesOf(Counted, Depth)
           = [FramesOf(stack, Depth) EXCEPT ![Len(FramesOf(stack, Depth))].count = @ + 1]
<1> DEFINE n == Depth
           l == FramesOf(Counted, n)
           s == FramesOf(stack, n)
           e == [s[n] EXCEPT !.count = @ + 1]
           r == [s EXCEPT ![n] = e]
<1>1. /\ n \in Nat \ {0} /\ n <= stackSize /\ stackTop = n - 1 /\ stackSize \in Nat
      /\ \A i \in 0 .. n - 1 : stack[i] \in Frame /\ Counted[i] \in Frame
  <2>1. Depth = stackTop + 1 /\ stackTop \in 0 .. stackSize - 1 /\ stackSize \in Nat
    BY TopInsideBlock DEF HasFrame, StackInv, StackTypeOK
  <2>2. \A i \in 0 .. Depth - 1 : stack[i] \in Frame /\ Counted[i] \in Frame
    BY StackIsBlock DEF Block
  <2>3. QED
    BY <2>1, <2>2
<1>2. /\ Counted[n - 1] = [type |-> stack[n - 1].type, count |-> stack[n - 1].count + 1]
      /\ \A i \in 0 .. n - 2 : Counted[i] = stack[i]
  BY <1>1, CountedFacts DEF CurrentFrame
<1>3. l \in Seq(Frame) /\ Len(l) = n /\ \A i \in 1 .. n : l[i] = Counted[i - 1]
  BY <1>1, FramesOfIsSeq
<1>4. s \in Seq(Frame) /\ Len(s) = n /\ \A i \in 1 .. n : s[i] = stack[i - 1]
  BY <1>1, FramesOfIsSeq
<1>5. e = Counted[n - 1] /\ e \in Frame
  <2>1. s[n] = stack[n - 1] /\ stack[n - 1] \in Frame /\ Counted[n - 1] \in Frame
    BY <1>1, <1>4
  <2>2. e = [type |-> stack[n - 1].type, count |-> stack[n - 1].count + 1]
    BY <2>1 DEF Frame
  <2>3. QED
    BY <1>2, <2>1, <2>2
<1> HIDE DEF s, e, l, n
<1>6. /\ r \in Seq(Frame) /\ Len(r) = n
      /\ \A i \in 1 .. n : r[i] = IF i = n THEN e ELSE s[i]
  BY <1>1, <1>4, <1>5, ExceptSeq
<1>7. ASSUME NEW i \in 1 .. n PROVE l[i] = r[i]
  <2>1. CASE i = n
    BY <1>1, <1>3, <1>5, <1>6, <2>1
  <2>2. CASE i # n
    <3>1. i - 1 \in 0 .. n - 2
      BY <1>1, <2>2
    <3>2. QED
      BY <1>1, <1>2, <1>3, <1>4, <1>6, <2>2, <3>1
  <2>3. QED
    BY <2>1, <2>2
<1> HIDE DEF r
<1>8. l = r
  BY <1>3, <1>6, <1>7, SeqEqual
<1>9. QED
  BY <1>4, <1>8 DEF l, r, s, e, n

(***************************************************************************)
(* The block of memory and its wrapping index implement the abstract stack *)
(* of open containers: what push, pop, frame.count and reset do to memory  *)
(* is what the abstract operations do to a sequence.                       *)
(***************************************************************************)
THEOREM StackRefinement == StackSpec => RefinesAbstractStack
<1> USE DEF Abstract!vars
<1>1. StackInit => Abstract!Init
  <2>1. StackInit => OpenDepth = 0
    BY IndexArithmetic DEF StackInit, OpenDepth, OffTheEnd, Depth
  <2>2. QED
    BY <2>1, FramesOfNone DEF StackInit, Abstract!Init, OpenFrames
<1>2. ASSUME StackInv, StackInv', [StackNext]_stackVars
      PROVE  [Abstract!Next]_(Abstract!vars)
  <2>1. ASSUME errmsg = "none"
        PROVE  /\ OpenFrames = FramesOf(stack, Depth) /\ Depth \in Nat
               /\ FramesOf(stack, Depth) \in Seq(Frame)
               /\ Len(FramesOf(stack, Depth)) = Depth
               /\ (FramesOf(stack, Depth) # <<>>) <=> (stackTop # Empty)
               /\ HasFrame <=> (stackTop # Empty)
    <3>1. /\ OpenDepth = Depth /\ Depth \in Nat
          /\ (Depth # 0) <=> (stackTop # Empty)
          /\ HasFrame <=> (stackTop # Empty)
      BY <1>2, <2>1, TopInsideBlock DEF StackInv, StackTypeOK, HasFrame
    <3>2. \A i \in 0 .. Depth - 1 : stack[i] \in Frame
      BY <1>2, <2>1, StackIsBlock DEF Block
    <3>3. /\ FramesOf(stack, Depth) \in Seq(Frame)
          /\ Len(FramesOf(stack, Depth)) = Depth
      BY <3>1, <3>2, FramesOfIsSeq
    <3>4. QED
      BY <3>1, <3>3, EmptySeq DEF OpenFrames
  <2>2. CASE PushStep
    <3>1. errmsg = "none"
      BY <2>2 DEF PushStep
    <3>2. PICK t \in Container, m \in Message, mem \in Blocks :
            /\ Push(mem, t, m)
            /\ errmsg' = m \/ (m = "none" /\ errmsg' = "syntax")
            /\ mem = stack \/ (mem = Counted /\ HasFrame)
      BY <2>2 DEF PushStep, Blocks, CountLeft
    <3> DEFINE outer == FramesOf(mem, Depth)
    <3>3. Block(mem) /\ Depth \in Nat
      BY <1>2, <2>1, <3>1, <3>2, StackIsBlock
    <3>4. outer \in Abstract!Outer
      BY <1>2, <2>1, <3>1, <3>2, FramesOfCounted DEF Abstract!Outer, Abstract!Counted
    <3>5. CASE m # "none"
      <4>1. /\ OffTheEnd' /\ stackTop' = Depth /\ stack' = mem
        <5>1. stackTop' = Depth /\ stack' = mem /\ UNCHANGED stackSize
          BY <3>2, <3>5 DEF Push, NeedsGrowth, Depth
        <5>2. Depth # Empty
          BY <1>2, <3>1, TopInsideBlock
        <5>3. QED
          BY <3>2, <3>5, <5>1, <5>2 DEF Push, NeedsGrowth, Depth, OffTheEnd, TooDeep
      <4>2. OpenFrames' = outer
        BY <4>1 DEF OpenFrames, OpenDepth, FramesOf
      <4>3. QED
        BY <3>1, <3>2, <3>4, <3>5, <4>2 DEF Abstract!Fail, Abstract!Next
    <3>6. CASE m = "none"
      <4>1. /\ OpenDepth' = Depth + 1 /\ stack'[Depth] = NewFrame(t)
            /\ \A i \in 0 .. Depth - 1 : stack'[i] = mem[i]
        BY <1>2, <3>1, <3>2, <3>3, <3>6, PushEffect
      <4>2. OpenFrames' = FramesOf(stack', Depth + 1)
        BY <4>1 DEF OpenFrames, FramesOf
      <4>3. FramesOf(stack', Depth + 1) = Append(outer, NewFrame(t))
        <5>1. \A i \in 0 .. Depth - 1 : mem[i] \in Frame /\ stack'[i] = mem[i]
          BY <3>3, <4>1 DEF Block
        <5>2. stack'[Depth] \in Frame
          BY <4>1, FrameFacts
        <5>3. FramesOf(stack', Depth + 1) = Append(outer, stack'[Depth])
          BY <3>3, <5>1, <5>2, FramesOfAppend
        <5>4. QED
          BY <4>1, <5>3
      <4>4. QED
        BY <3>1, <3>2, <3>4, <3>6, <4>2, <4>3
           DEF Abstract!Push, Abstract!Next, NewFrame, Container, Abstract!Container
    <3>7. QED
      BY <3>5, <3>6
  <2>3. CASE PopStep
    <3>1. PICK t \in Container, m \in Message : Pop(t, m) /\ errmsg' = m
      BY <2>3 DEF PopStep
    <3>2. errmsg = "none"
      BY <2>3 DEF PopStep
    <3>3. CASE m = "syntax" /\ UNCHANGED stackTop
      <4>1. OpenFrames' = OpenFrames
        BY <3>1, <3>3 DEF Pop, OpenFrames, OpenDepth, OffTheEnd, Depth, TooDeep
      <4>2. QED
        BY <3>1, <3>2, <3>3, <4>1 DEF Abstract!Fail, Abstract!Outer, Abstract!Next
    <3>4. CASE HasFrame /\ m = "none" /\ stackTop' = Below(stackTop)
      <4>1. /\ stackTop \in Nat /\ Depth = stackTop + 1 /\ stackTop # Empty
            /\ OpenDepth' = stackTop /\ UNCHANGED stack
        BY <1>2, <3>1, <3>2, <3>4, PopEffect DEF HasFrame
      <4>2. OpenFrames' = FramesOf(stack, stackTop)
        BY <4>1 DEF OpenFrames, FramesOf
      <4>3. \A i \in 0 .. stackTop : stack[i] \in Frame
        BY <1>2, <3>2, <4>1, StackIsBlock DEF Block
      <4>4. FramesOf(stack, stackTop)
              = SubSeq(OpenFrames, 1, Len(OpenFrames) - 1)
        BY <2>1, <3>2, <4>1, <4>3, FramesOfShorter
      <4>5. QED
        BY <2>1, <3>1, <3>2, <3>4, <4>1, <4>2, <4>4 DEF Abstract!Pop, Abstract!Next
    <3>5. QED
      BY <3>1, <3>3, <3>4 DEF Pop
  <2>4. CASE CountStep
    <3>1. errmsg = "none" /\ HasFrame /\ stack' = Counted
          /\ UNCHANGED <<stackTop, stackSize, errmsg>>
      BY <2>4 DEF CountStep, CountLeft
    <3>2. OpenFrames' = FramesOf(Counted, Depth)
      <4>1. ~OffTheEnd'
        BY <1>2, <3>1 DEF StackInv, OpenFramesWritten
      <4>2. QED
        BY <3>1, <4>1 DEF OpenFrames, OpenDepth, FramesOf, Depth
    <3>3. QED
      BY <1>2, <2>1, <3>1, <3>2, FramesOfCounted
         DEF Abstract!Count, Abstract!Counted, Abstract!Next
  <2>5. CASE FailStep
    <3>1. /\ errmsg = "none" /\ errmsg' # "none" /\ UNCHANGED <<stackTop, stackSize>>
          /\ stack' = stack \/ (stack' = Counted /\ HasFrame)
      BY <2>5 DEF FailStep, Blocks, CountLeft
    <3>2. OpenFrames' = FramesOf(stack', Depth)
      <4>1. ~OffTheEnd
        BY <1>2, <3>1, TopInsideBlock
      <4>2. ~OffTheEnd'
        BY <3>1, <4>1 DEF OffTheEnd, TooDeep
      <4>3. QED
        BY <3>1, <4>2 DEF OpenFrames, OpenDepth, FramesOf, Depth
    <3>3. OpenFrames' \in Abstract!Outer
      BY <1>2, <2>1, <3>1, <3>2, FramesOfCounted DEF Abstract!Outer, Abstract!Counted
    <3>4. QED
      BY <3>1, <3>3 DEF Abstract!Fail, Abstract!Next
  <2>6. CASE ResetStep
    <3>1. OpenDepth' = 0
      BY <2>6, IndexArithmetic DEF ResetStep, OffTheEnd, OpenDepth, Depth
    <3>2. OpenFrames' = <<>>
      BY <3>1, FramesOfNone DEF OpenFrames, FramesOf
    <3>3. QED
      BY <2>6, <3>2 DEF ResetStep, Abstract!Reset, Abstract!Next
  <2>7. CASE UNCHANGED stackVars
    BY <2>7 DEF stackVars, OpenFrames, OpenDepth, OffTheEnd, Depth, TooDeep
  <2>8. QED
    BY <1>2, <2>2, <2>3, <2>4, <2>5, <2>6, <2>7 DEF StackNext
<1>3. QED
  BY <1>1, <1>2, StackInvariant, PTL DEF StackSpec, RefinesAbstractStack, Abstract!Spec
=============================================================================
