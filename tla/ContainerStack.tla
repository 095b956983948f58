--------------------------- MODULE ContainerStack ---------------------------
(***************************************************************************)
(* The stack of open containers of struct json_stream: a block of frames   *)
(* obtained from the caller's realloc, stackSize frames long, and an index *)
(* into it that holds SIZE_MAX when nothing is open.                       *)
(*                                                                         *)
(* The memory is kept as memory: slots realloc has just handed out hold    *)
(* Unwritten until push writes them, and slots above the top keep what was *)
(* there.  push advances the index before it knows whether there is a      *)
(* frame to write, so a failed push leaves the index on a slot that may    *)
(* not exist; the error latch (errmsg) is what keeps the parser away from  *)
(* it until the next reset.                                                *)
(***************************************************************************)
EXTENDS Integers, Sequences

CONSTANTS
  StackInc,    \* frames added at a time                   (abi.stack_inc)
  StackMax,    \* -Dstack-max; 0 is "no limit"        (parser.stack_max)
  SizeMax,     \* the largest usize, and the empty-stack sentinel
  MaxFrames,   \* frames whose size in bytes still fits a usize
  MaxCount     \* bound: members or elements counted in one container

ASSUME StackAssumption ==
  /\ StackInc \in Nat \ {0}
  /\ {StackMax, SizeMax, MaxFrames, MaxCount} \subseteq Nat
  /\ MaxFrames + StackInc < SizeMax

VARIABLES
  stack,       \* the block: a function over 0 .. stackSize - 1
  stackTop,    \* index of the innermost open container, or Empty
  stackSize,   \* frames allocated; 0 while the pointer is null
  errmsg       \* the latched diagnostic, "none" while the flag is clear

stackVars == <<stack, stackTop, stackSize, errmsg>>

Container == {"array", "object"}
Frame     == [type : Container, count : Nat]
Unwritten == [type |-> "unwritten", count |-> 0]
Message   == {"none", "oom", "depth", "syntax", "state"}
Empty     == SizeMax

NewFrame(t) == [type |-> t, count |-> 0]

(* usize arithmetic wraps: the successor of the sentinel is index 0. *)
Above(top) == IF top = SizeMax THEN 0 ELSE top + 1
Below(top) == IF top = 0 THEN SizeMax ELSE top - 1

Depth == Above(stackTop)

(* currentFrame: is there a frame, and which one it is. *)
HasFrame     == stackTop # Empty /\ stackTop < stackSize
CurrentFrame == stack[stackTop]

(* json_get_context: DONE stands for "no container". *)
Context == IF HasFrame THEN CurrentFrame.type ELSE "done"

(* frame.count +%= 1, through the frame currentFrame returned. *)
Counted   == [stack EXCEPT ![stackTop].count = @ + 1]
CountLeft == HasFrame /\ CurrentFrame.count < MaxCount

(* The block as a step of the parser may leave it before it pushes or fails. *)
Blocks == {stack} \union (IF CountLeft THEN {Counted} ELSE {})

(* A slip: one frame more. *)
TooDeepByOne(top) == StackMax # 0 /\ top > StackMax + 1

(* The tests of push are made on the index already advanced. *)
TooDeep(top) == StackMax # 0 /\ top > StackMax

(* A slip: the slot just after the block is taken for one of its own. *)
NeedsGrowthLate(top) == top > stackSize

NeedsGrowth(top) == top >= stackSize

(* A slip: the old frames are not copied. *)
GrownAfresh(mem) == [i \in 0 .. stackSize + StackInc - 1 |-> Unwritten]

Grown(mem) == [i \in 0 .. stackSize + StackInc - 1 |->
                 IF i < stackSize THEN mem[i] ELSE Unwritten]

(***************************************************************************)
(* push(t), on the block mem (the current one, or the current one with the *)
(* enclosing container's count already advanced).  m is the diagnostic it  *)
(* records, "none" on success.  realloc may refuse at any time, and must   *)
(* be taken to refuse a size that does not fit a usize.                    *)
(***************************************************************************)
Push(mem, t, m) ==
  LET top == Above(stackTop) IN
  /\ stackTop' = top
  /\ \/ /\ TooDeep(top) /\ m = "depth"
        /\ stack' = mem /\ UNCHANGED stackSize
     \/ /\ ~TooDeep(top) /\ NeedsGrowth(top) /\ m = "oom"
        /\ stack' = mem /\ UNCHANGED stackSize
     \/ /\ ~TooDeep(top) /\ NeedsGrowth(top) /\ m = "none"
        /\ stackSize + StackInc <= MaxFrames
        /\ stackSize' = stackSize + StackInc
        /\ stack' = [Grown(mem) EXCEPT ![top] = NewFrame(t)]
     \/ /\ ~TooDeep(top) /\ ~NeedsGrowth(top) /\ m = "none"
        /\ stack' = [mem EXCEPT ![top] = NewFrame(t)]
        /\ UNCHANGED stackSize

(* pop(expected): the frame stays where it is, only the index moves. *)
Pop(t, m) ==
  /\ IF HasFrame /\ CurrentFrame.type = t
       THEN m = "none"   /\ stackTop' = Below(stackTop)
       ELSE m = "syntax" /\ UNCHANGED stackTop
  /\ UNCHANGED <<stack, stackSize>>

-----------------------------------------------------------------------------
StackInit ==
  /\ stack = [i \in {} |-> Unwritten]
  /\ stackTop = Empty
  /\ stackSize = 0
  /\ errmsg = "none"

(***************************************************************************)
(* The stack as the parser drives it: nothing touches it while an error is *)
(* latched, because json_next returns at once.                             *)
(***************************************************************************)
PushStep ==
  /\ errmsg = "none"
  /\ \E t \in Container, m \in Message, mem \in Blocks :
       /\ Push(mem, t, m)
       /\ errmsg' = m \/ (m = "none" /\ errmsg' = "syntax")  \* opened, and rejected

PopStep ==
  /\ errmsg = "none"
  /\ \E t \in Container, m \in Message : Pop(t, m) /\ errmsg' = m

CountStep ==
  /\ errmsg = "none"
  /\ CountLeft
  /\ stack' = Counted
  /\ UNCHANGED <<stackTop, stackSize, errmsg>>

(* Any other diagnostic of the parser, with or without a value counted. *)
FailStep ==
  /\ errmsg = "none"
  /\ errmsg' \in Message \ {"none"}
  /\ stack' \in Blocks
  /\ UNCHANGED <<stackTop, stackSize>>

(* A slip: the index is left where the error found it. *)
ResetStepKeepingTop ==
  /\ errmsg' = "none"
  /\ UNCHANGED <<stack, stackTop, stackSize>>

(* reset: the block is kept, with whatever its slots hold. *)
ResetStep ==
  /\ stackTop' = Empty
  /\ errmsg' = "none"
  /\ UNCHANGED <<stack, stackSize>>

StackNext == PushStep \/ PopStep \/ CountStep \/ FailStep \/ ResetStep

StackSpec == StackInit /\ [][StackNext]_stackVars

-----------------------------------------------------------------------------
StackTypeOK ==
  /\ stackSize \in 0 .. MaxFrames
  /\ stackTop \in 0 .. SizeMax
  /\ errmsg \in Message
  /\ stack \in [0 .. stackSize - 1 -> Frame \union {Unwritten}]

(***************************************************************************)
(* The index is on a slot push did not write exactly when the last push    *)
(* failed: the slot after the block, or the first one over the limit.      *)
(***************************************************************************)
OffTheEnd == stackTop # Empty /\ (stackTop >= stackSize \/ TooDeep(stackTop))

OpenDepth == IF OffTheEnd THEN stackTop ELSE Depth

(* The containers that are really open, outermost first. *)
FramesOf(mem, n) == [i \in 1 .. n |-> mem[i - 1]]
OpenFrames == FramesOf(stack, OpenDepth)

(***************************************************************************)
(* Every container json_get_depth counts has a frame push wrote, and the   *)
(* index leaves the written part of the block only under a latched error,  *)
(* and then by one slot at most.  This is what makes currentFrame's bound  *)
(* check enough: nextEvent never reads a slot realloc left uninitialised.  *)
(***************************************************************************)
OpenFramesWritten ==
  /\ OffTheEnd => errmsg # "none"
  /\ OpenDepth <= stackSize
  /\ \A i \in 0 .. OpenDepth - 1 : stack[i] # Unwritten

(***************************************************************************)
(* "The frame stack_top points at, or null when there is no valid one":    *)
(* a frame json_get_context reads, error latched or not, was written by    *)
(* push.                                                                   *)
(***************************************************************************)
CurrentFrameWritten == HasFrame => CurrentFrame # Unwritten

(***************************************************************************)
(* The limit as `diagnose` prints it, "nesting deeper than this errors":   *)
(* while no error is latched, no more than stack-max containers are open.  *)
(***************************************************************************)
NestingWithinLimit == StackMax # 0 /\ errmsg = "none" => Depth <= StackMax

(* What push really enforces: one container more than the limit. *)
NestingWithinLimitPlusOne ==
  StackMax # 0 /\ errmsg = "none" => Depth <= StackMax + 1

(* Frames implement the abstract stack of open containers. *)
Abstract == INSTANCE AbstractStack WITH open <- OpenFrames,
                                        failed <- (errmsg # "none")
RefinesAbstractStack == Abstract!Spec
=============================================================================
