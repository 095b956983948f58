------------------------- MODULE TokenBuffer_proofs -------------------------
(***************************************************************************)
(* Proofs about the token buffer, for every initial size and every size of *)
(* usize.  What is inductive needs one fact more than the types: while a   *)
(* token is being lexed with no error there is a block to write it to.     *)
(***************************************************************************)
EXTENDS TokenBuffer, SequenceTheorems, WellFoundedInduction, TLAPS

Contents == Cell \union {Unwritten}

BufferInv ==
  /\ BufferTypeOK
  /\ FilledBytesWritten
  /\ CompleteTokenTerminated
  /\ allocated => stringSize > 0
  /\ lexing = "cut" /\ errmsg = "none" => allocated

(* A buffer without a block, whatever size it was to have. *)
LEMMA NoBlockInv ==
  ASSUME allocated = FALSE, string = [i \in {} |-> Unwritten],
         stringFill = 0, stringSize \in 0 .. BufferMax,
         errmsg = "none", lexing = "none"
  PROVE  BufferInv
<1>1. string \in [0 .. (IF allocated THEN stringSize ELSE 0) - 1 -> Contents]
  <2>1. 0 .. 0 - 1 = {}
    OBVIOUS
  <2>2. QED
    BY <2>1
<1>2. BufferTypeOK
  <2>1. allocated \in BOOLEAN
    OBVIOUS
  <2>2. stringFill \in 0 .. stringSize
    BY BufferAssumption DEF BufferAssumption
  <2>3. errmsg \in Message /\ lexing \in {"none", "cut", "complete"}
    BY DEF Message
  <2>4. QED
    BY <1>1, <2>1, <2>2, <2>3 DEF BufferTypeOK, Contents
<1>3. QED
  BY <1>2 DEF BufferInv, FilledBytesWritten, CompleteTokenTerminated

(* A buffer in which one byte was written, and the token then given up. *)
LEMMA ShortBlockInv ==
  ASSUME allocated = TRUE, stringFill = 1, stringSize = InitialSize, NEW b \in Cell,
         string = [i \in 0 .. InitialSize - 1 |-> IF i = 0 THEN b ELSE Unwritten],
         errmsg = "none", lexing = "none"
  PROVE  BufferInv
<1> USE BufferAssumption DEF BufferAssumption
<1>1. string \in [0 .. (IF allocated THEN stringSize ELSE 0) - 1 -> Contents]
  BY DEF Contents
<1>2. BufferTypeOK
  <2>1. allocated \in BOOLEAN
    OBVIOUS
  <2>2. stringSize \in 0 .. BufferMax /\ stringFill \in 0 .. stringSize
    OBVIOUS
  <2>3. errmsg \in Message /\ lexing \in {"none", "cut", "complete"}
    BY DEF Message
  <2>4. QED
    BY <1>1, <2>1, <2>2, <2>3 DEF BufferTypeOK, Contents
<1>3. FilledBytesWritten
  BY DEF FilledBytesWritten
<1>4. QED
  BY <1>2, <1>3 DEF BufferInv, CompleteTokenTerminated

LEMMA BufferInvInit == TokenInit => BufferInv
<1>1. 0 \in 0 .. BufferMax
  BY BufferAssumption DEF BufferAssumption
<1>2. QED
  BY <1>1, NoBlockInv DEF TokenInit, BufferInit

(* initString leaves an empty token in a block, or an error and no block. *)
LEMMA InitStringFacts ==
  ASSUME BufferInv, NEW m, InitString(m)
  PROVE  /\ m \in {"none", "oom"} /\ stringFill' = 0
         /\ allocated' \in BOOLEAN /\ (m = "none" => allocated')
         /\ stringSize' \in 0 .. BufferMax /\ stringSize' > 0
         /\ string' \in [0 .. (IF allocated' THEN stringSize' ELSE 0) - 1 -> Contents]
<1> USE BufferAssumption DEF BufferAssumption, BufferInv, BufferTypeOK, Contents
<1>1. CASE /\ allocated /\ m = "none"
           /\ string' = [string EXCEPT ![0] = Nul]
           /\ UNCHANGED <<allocated, stringSize>>
  BY <1>1 DEF InitString
<1>2. CASE /\ ~allocated /\ m = "none"
           /\ allocated' = TRUE /\ stringSize' = InitialSize
           /\ string' = [i \in 0 .. InitialSize - 1 |-> IF i = 0 THEN Nul ELSE Unwritten]
  BY <1>2 DEF InitString
<1>3. CASE /\ ~allocated /\ m = "oom"
           /\ stringSize' = InitialSize
           /\ UNCHANGED <<allocated, string>>
  BY <1>3 DEF InitString
<1>4. QED
  BY <1>1, <1>2, <1>3 DEF InitString

(***************************************************************************)
(* pushchar adds one byte and loses none, through the growth of the block  *)
(* too; or it refuses and changes nothing.                                 *)
(***************************************************************************)
LEMMA PushCharFacts ==
  ASSUME BufferInv, allocated, NEW b \in Cell, NEW m, PushChar(b, m)
  PROVE  /\ m \in {"none", "oom"}
         /\ m # "none" => UNCHANGED bufferVars
         /\ m = "none" =>
              /\ allocated' = TRUE
              /\ stringSize' \in 0 .. BufferMax /\ stringSize' > 0
              /\ stringFill' = stringFill + 1 /\ stringFill' \in 0 .. stringSize'
              /\ string' \in [0 .. stringSize' - 1 -> Contents]
              /\ string'[stringFill] = b
              /\ \A i \in 0 .. stringFill - 1 : string'[i] = string[i]
<1> USE BufferAssumption DEF BufferAssumption, BufferInv, BufferTypeOK
<1>0. /\ string \in [0 .. stringSize - 1 -> Contents] /\ stringSize \in Nat /\ stringSize > 0
      /\ stringFill \in 0 .. stringSize /\ BufferMax \in Nat
  BY DEF Contents
<1>1. CASE /\ ~Full /\ m = "none"
           /\ string' = Written(string, b)
           /\ stringFill' = stringFill + 1
           /\ UNCHANGED <<allocated, stringSize>>
  <2>1. stringFill \in 0 .. stringSize - 1
    BY <1>0, <1>1 DEF Full
  <2>2. string' = [string EXCEPT ![stringFill] = b]
    BY <1>1 DEF Written
  <2>3. string' \in [0 .. stringSize - 1 -> Contents]
    BY <1>0, <2>1, <2>2 DEF Contents
  <2>4. QED
    BY <1>0, <1>1, <2>1, <2>2, <2>3
<1>2. CASE /\ Full /\ m = "none"
           /\ 2 * stringSize <= BufferMax
           /\ stringSize' = 2 * stringSize
           /\ string' = Written(Doubled, b)
           /\ stringFill' = stringFill + 1
           /\ allocated' = TRUE
  <2>1. stringFill = stringSize /\ stringFill \in 0 .. 2 * stringSize - 1
    BY <1>0, <1>2 DEF Full
  <2>2. /\ Doubled \in [0 .. 2 * stringSize - 1 -> Contents]
        /\ \A i \in 0 .. stringSize - 1 : Doubled[i] = string[i]
    BY <1>0 DEF Doubled, Contents
  <2>3. string' = [Doubled EXCEPT ![stringFill] = b]
    BY <1>2 DEF Written
  <2>4. string' \in [0 .. 2 * stringSize - 1 -> Contents]
    BY <2>1, <2>2, <2>3 DEF Contents
  <2>5. string'[stringFill] = b /\ \A i \in 0 .. stringFill - 1 : string'[i] = string[i]
    BY <1>0, <2>1, <2>2, <2>3
  <2>6. QED
    BY <1>0, <1>2, <2>1, <2>4, <2>5
<1>3. CASE m = "oom" /\ UNCHANGED bufferVars
  BY <1>3
<1>4. QED
  BY <1>1, <1>2, <1>3 DEF PushChar

LEMMA PushKeepsBuffer ==
  ASSUME BufferInv, errmsg = "none", lexing = "cut",
         NEW b \in Cell, NEW m, PushChar(b, m), errmsg' = m,
         \/ lexing' = "cut"
         \/ lexing' = "complete" /\ b = Nul /\ m = "none"
  PROVE  BufferInv'
<1>1. allocated
  BY DEF BufferInv
<1>2. /\ m \in {"none", "oom"}
      /\ m # "none" => UNCHANGED bufferVars
      /\ m = "none" =>
           /\ allocated' = TRUE
           /\ stringSize' \in 0 .. BufferMax /\ stringSize' > 0
           /\ stringFill' = stringFill + 1 /\ stringFill' \in 0 .. stringSize'
           /\ string' \in [0 .. stringSize' - 1 -> Contents]
           /\ string'[stringFill] = b
           /\ \A i \in 0 .. stringFill - 1 : string'[i] = string[i]
  BY <1>1, PushCharFacts
<1>3. stringFill \in Nat
  BY DEF BufferInv, BufferTypeOK
<1>4. CASE m # "none"
  BY <1>1, <1>2, <1>4
     DEF bufferVars, BufferInv, BufferTypeOK, FilledBytesWritten, CompleteTokenTerminated, Message
<1>5. CASE m = "none"
  <2>1. BufferTypeOK'
    BY <1>2, <1>5 DEF BufferTypeOK, Contents, Message
  <2>2. FilledBytesWritten'
    <3>1. ASSUME NEW i \in 0 .. stringFill' - 1 PROVE string'[i] \in Cell
      <4>1. i = stringFill \/ i \in 0 .. stringFill - 1
        BY <1>2, <1>3, <1>5
      <4>2. QED
        BY <1>2, <1>5, <4>1 DEF BufferInv, FilledBytesWritten
    <3>2. QED
      BY <1>2, <1>5, <3>1 DEF FilledBytesWritten
  <2>3. CompleteTokenTerminated'
    <3>1. stringFill' > 0 /\ stringFill' - 1 = stringFill
      BY <1>2, <1>3, <1>5
    <3>2. lexing' = "complete" => string'[stringFill] = Nul
      BY <1>2, <1>5
    <3>3. QED
      BY <3>1, <3>2 DEF CompleteTokenTerminated
  <2>4. QED
    BY <1>2, <1>5, <2>1, <2>2, <2>3 DEF BufferInv
<1>6. QED
  BY <1>4, <1>5

LEMMA BufferInvKept == BufferInv /\ [TokenNext]_tokenVars => BufferInv'
<1> SUFFICES ASSUME BufferInv, [TokenNext]_tokenVars PROVE BufferInv'
  OBVIOUS
<1>1. CASE BeginToken
  <2>1. PICK m \in Message : InitString(m) /\ errmsg' = m /\ lexing' = "cut"
    BY <1>1 DEF BeginToken
  <2>2. /\ stringFill' = 0
        /\ allocated' \in BOOLEAN /\ (m = "none" => allocated')
        /\ stringSize' \in 0 .. BufferMax /\ stringSize' > 0
        /\ string' \in [0 .. (IF allocated' THEN stringSize' ELSE 0) - 1 -> Contents]
    BY <2>1, InitStringFacts
  <2>3. BufferTypeOK'
    <3>1. stringFill' \in 0 .. stringSize'
      BY <2>2
    <3>2. errmsg' \in Message /\ lexing' \in {"none", "cut", "complete"}
      BY <2>1
    <3>3. QED
      BY <2>2, <3>1, <3>2 DEF BufferTypeOK, Contents
  <2>4. FilledBytesWritten' /\ CompleteTokenTerminated'
    BY <2>1, <2>2 DEF FilledBytesWritten, CompleteTokenTerminated
  <2>5. QED
    BY <2>1, <2>2, <2>3, <2>4 DEF BufferInv
<1>2. CASE WriteByte
  BY <1>2, PushKeepsBuffer DEF WriteByte
<1>3. CASE EndToken
  BY <1>3, PushKeepsBuffer, BufferAssumption DEF EndToken, BufferAssumption
<1>4. CASE CutToken
  BY <1>4 DEF CutToken, bufferVars, BufferInv, BufferTypeOK, FilledBytesWritten,
              CompleteTokenTerminated, Message
<1>5. CASE ResetToken
  BY <1>5 DEF ResetToken, bufferVars, BufferInv, BufferTypeOK, FilledBytesWritten,
              CompleteTokenTerminated, Message
<1>6. CASE UNCHANGED tokenVars
  BY <1>6 DEF tokenVars, bufferVars, BufferInv, BufferTypeOK, FilledBytesWritten,
              CompleteTokenTerminated
<1>7. QED
  BY <1>1, <1>2, <1>3, <1>4, <1>5, <1>6 DEF TokenNext

THEOREM BufferInvariant == TokenSpec => []BufferInv
BY BufferInvInit, BufferInvKept, PTL DEF TokenSpec

(***************************************************************************)
(* getStringSlice and getNumber read bytes pushchar wrote, for every size  *)
(* the buffer starts from and however often it doubles.                    *)
(***************************************************************************)
THEOREM FilledBytesAreWritten == TokenSpec => []FilledBytesWritten
<1>1. BufferInv => FilledBytesWritten
  BY DEF BufferInv
<1>2. QED
  BY <1>1, BufferInvariant, PTL

(***************************************************************************)
(* A complete token ends with the NUL json_get_string counts in its length.*)
(***************************************************************************)
THEOREM CompleteTokensEnd == TokenSpec => []CompleteTokenTerminated
<1>1. BufferInv => CompleteTokenTerminated
  BY DEF BufferInv
<1>2. QED
  BY <1>1, BufferInvariant, PTL
(***************************************************************************)
(* The buffer's variables keep their types: no fill mark, size or byte     *)
(* leaves its range, however often the buffer doubles.                     *)
(***************************************************************************)
THEOREM BufferTypeCorrect == TokenSpec => []BufferTypeOK
<1>1. BufferInv => BufferTypeOK
  BY DEF BufferInv
<1>2. QED
  BY <1>1, BufferInvariant, PTL

-----------------------------------------------------------------------------
(* What pushchar does to the text: it is longer by its byte, or the same. *)
LEMMA PushCharAppends ==
  ASSUME BufferInv, allocated, NEW b \in Cell, NEW m, PushChar(b, m)
  PROVE  /\ m \in {"none", "oom"}
         /\ m = "none" => Text' = Append(Text, b)
         /\ m # "none" => Text' = Text
<1>1. /\ m \in {"none", "oom"}
      /\ m # "none" => UNCHANGED bufferVars
      /\ m = "none" =>
           /\ stringFill' = stringFill + 1
           /\ string'[stringFill] = b
           /\ \A i \in 0 .. stringFill - 1 : string'[i] = string[i]
  BY PushCharFacts
<1>2. stringFill \in Nat
  BY DEF BufferInv, BufferTypeOK
<1>3. CASE m = "none"
  <2>1. Text \in Seq(Contents) /\ Len(Text) = stringFill
    <3>1. ASSUME NEW i \in 1 .. stringFill PROVE string[i - 1] \in Contents
      <4>1. i - 1 \in 0 .. stringSize - 1
        BY <1>2 DEF BufferInv, BufferTypeOK
      <4>2. QED
        BY <4>1 DEF BufferInv, BufferTypeOK, Contents
    <3>2. Text \in [1 .. stringFill -> Contents]
      BY <3>1 DEF Text
    <3>3. QED
      BY <1>2, <3>2
  <2>2. /\ Append(Text, b) \in Seq(Contents) /\ Len(Append(Text, b)) = stringFill + 1
        /\ \A i \in 1 .. stringFill : Append(Text, b)[i] = Text[i]
        /\ Append(Text, b)[stringFill + 1] = b
    <3>1. b \in Contents
      BY DEF Contents
    <3>2. QED
      BY <2>1, <3>1, AppendProperties
  <2>3. ASSUME NEW i \in 1 .. stringFill + 1
        PROVE  string'[i - 1] = Append(Text, b)[i] /\ string'[i - 1] \in Contents
    <3>1. CASE i = stringFill + 1
      BY <1>1, <1>2, <1>3, <2>2, <3>1 DEF Contents
    <3>2. CASE i # stringFill + 1
      <4>1. i \in 1 .. stringFill /\ i - 1 \in 0 .. stringFill - 1
        BY <1>2, <3>2
      <4>2. string'[i - 1] = Text[i]
        BY <1>1, <1>3, <4>1 DEF Text
      <4>3. Text[i] \in Contents
        BY <2>1, <4>1, ElementOfSeq
      <4>4. QED
        BY <2>2, <4>1, <4>2, <4>3
    <3>3. QED
      BY <3>1, <3>2
  <2>4. Text' = [i \in 1 .. stringFill + 1 |-> string'[i - 1]]
    BY <1>1, <1>3 DEF Text
  <2>5. Text' \in [1 .. stringFill + 1 -> Contents]
    BY <2>3, <2>4
  <2>6. Text' \in Seq(Contents) /\ Len(Text') = stringFill + 1
    BY <1>2, <2>5
  <2>7. \A i \in 1 .. stringFill + 1 : Text'[i] = Append(Text, b)[i]
    BY <2>3, <2>4
  <2>8. QED
    BY <1>3, <2>2, <2>6, <2>7, SeqEqual
<1>4. CASE m # "none"
  BY <1>1, <1>4 DEF bufferVars, Text
<1>5. QED
  BY <1>1, <1>3, <1>4

(* An empty token is the empty text. *)
LEMMA EmptyText == (stringFill = 0 => Text = <<>>) /\ (stringFill' = 0 => Text' = <<>>)
BY DEF Text

LEMMA BufferStepIsTextStep ==
  BufferInv /\ [TokenNext]_tokenVars => [Token!Next]_Token!vars
<1> SUFFICES ASSUME BufferInv, [TokenNext]_tokenVars PROVE [Token!Next]_Token!vars
  OBVIOUS
<1>1. CASE BeginToken
  <2>1. PICK m \in Message : InitString(m) /\ errmsg' = m
    BY <1>1 DEF BeginToken
  <2>2. stringFill' = 0
    BY <2>1 DEF InitString
  <2>3. Token!Begin
    BY <1>1, <2>2, EmptyText DEF BeginToken, Token!Begin
  <2>4. QED
    BY <2>3 DEF Token!Next
<1>2. CASE WriteByte
  <2>1. PICK b \in Cell, m \in Message : PushChar(b, m) /\ errmsg' = m
    BY <1>2 DEF WriteByte
  <2>2. errmsg = "none" /\ lexing = "cut" /\ lexing' = lexing /\ allocated
    BY <1>2 DEF WriteByte, BufferInv
  <2>3. CASE m = "none"
    <3>1. Text' = Append(Text, b) /\ errmsg' = "none"
      BY <2>1, <2>2, <2>3, PushCharAppends
    <3>2. Token!Write
      BY <2>2, <3>1 DEF Token!Write, Token!Reading
    <3>3. QED
      BY <3>2 DEF Token!Next
  <2>4. CASE m # "none"
    <3>1. Text' = Text /\ errmsg' # "none"
      BY <2>1, <2>2, <2>4, PushCharAppends
    <3>2. Token!Fail
      BY <2>2, <3>1 DEF Token!Fail, Token!Reading
    <3>3. QED
      BY <3>2 DEF Token!Next
  <2>5. QED
    BY <2>3, <2>4
<1>3. CASE EndToken
  <2>1. PICK m \in Message : /\ PushChar(Nul, m) /\ errmsg' = m
                             /\ lexing' = IF m = "none" THEN "complete" ELSE "cut"
    BY <1>3 DEF EndToken
  <2>2. errmsg = "none" /\ lexing = "cut" /\ allocated /\ Nul \in Cell
    BY <1>3, BufferAssumption DEF EndToken, BufferInv, BufferAssumption
  <2>3. CASE m = "none"
    <3>1. Text' = Append(Text, Nul) /\ errmsg' = "none"
      BY <2>1, <2>2, <2>3, PushCharAppends
    <3>2. Token!End
      BY <2>1, <2>2, <2>3, <3>1 DEF Token!End, Token!Reading
    <3>3. QED
      BY <3>2 DEF Token!Next
  <2>4. CASE m # "none"
    <3>1. Text' = Text /\ errmsg' # "none"
      BY <2>1, <2>2, <2>4, PushCharAppends
    <3>2. Token!Fail
      BY <2>1, <2>2, <2>4, <3>1 DEF Token!Fail, Token!Reading
    <3>3. QED
      BY <3>2 DEF Token!Next
  <2>5. QED
    BY <2>3, <2>4
<1>4. CASE CutToken
  <2>1. Token!Fail
    BY <1>4 DEF CutToken, bufferVars, Text, Token!Fail, Token!Reading
  <2>2. QED
    BY <2>1 DEF Token!Next
<1>5. CASE ResetToken
  <2>1. Token!Reset
    BY <1>5 DEF ResetToken, bufferVars, Text, Token!Reset
  <2>2. QED
    BY <2>1 DEF Token!Next
<1>6. CASE UNCHANGED tokenVars
  BY <1>6 DEF tokenVars, bufferVars, Text, Token!vars
<1>7. QED
  BY <1>1, <1>2, <1>3, <1>4, <1>5, <1>6 DEF TokenNext

(***************************************************************************)
(* The doubling block implements the text: however the lexers write it and *)
(* wherever the allocator refuses, tokens start empty, grow by the byte    *)
(* written, and lose nothing.                                              *)
(***************************************************************************)
THEOREM BufferRefinement == TokenSpec => RefinesTokenText
<1>1. TokenInit => Token!Init
  BY EmptyText DEF TokenInit, BufferInit, Token!Init
<1>2. QED
  BY <1>1, BufferStepIsTextStep, BufferInvariant, PTL
     DEF TokenSpec, RefinesTokenText, Token!Spec
-----------------------------------------------------------------------------
(* What is true of 0, and of n + 1 whenever it is of n, is true of Nat. *)
LEMMA Induction ==
  ASSUME NEW T, 0 \in T, \A n \in Nat : n \in T => n + 1 \in T
  PROVE  \A n \in Nat : n \in T
<1> DEFINE R == OpToRel(<, Nat)
<1> DEFINE U == Nat \ T
<1>1. SUFFICES ASSUME U # {} PROVE FALSE
  OBVIOUS
<1>2. \E x \in U : \A y \in U : ~(<<y, x>> \in R)
  <2>1. IsWellFoundedOn(R, Nat)
    BY NatLessThanWellFounded
  <2> HIDE DEF R
  <2>2. QED
    BY <1>1, <2>1, WFMin
<1>3. PICK x \in U : \A y \in U : ~(y < x)
  <2>1. PICK x \in U : \A y \in U : ~(<<y, x>> \in R)
    BY <1>2
  <2>2. \A y \in U : <<y, x>> \in R <=> y < x
    BY DEF OpToRel
  <2>3. QED
    BY <2>1, <2>2
<1>4. x \in Nat /\ x # 0
  BY <1>3
<1>5. x - 1 \in Nat /\ x - 1 < x /\ (x - 1) + 1 = x
  BY <1>4
<1>6. QED
  BY <1>3, <1>5
=============================================================================
