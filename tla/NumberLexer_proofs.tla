------------------------- MODULE NumberLexer_proofs -------------------------
(***************************************************************************)
(* The number lexer inside the token buffer's specification: every step of *)
(* it is one TokenBuffer allows, so what is proved of the buffer holds     *)
(* while a number is read, from whatever buffer an earlier token left.     *)
(* Then what the number is: the automaton of RFC 8259 runs beside the call *)
(* and says at every place of it what has been read.                       *)
(***************************************************************************)
EXTENDS NumberLexer, TokenBuffer_proofs

(* Where the call is decides whether the buffer may be written. *)
CallInv ==
  /\ pc = "init" => errmsg = "none" /\ lexing = "none"
  /\ pc \notin {"init", "returned"} => errmsg = "none" /\ lexing = "cut"
  /\ pc = "digits" => return \in {"point", "exponent", "end"}

LEMMA CallInvInit == NumberInit => CallInv
BY DEF NumberInit, CallInv

(* A byte pushed is a WriteByte; the call goes on, or returns its error. *)
LEMMA PushThenWrites ==
  ASSUME CallInv, pc \notin {"init", "returned"}, NEW c \in Byte, NEW label,
         label \notin {"init", "returned"}, PushThen(c, label)
  PROVE  /\ WriteByte
         /\ (errmsg' = "none" /\ lexing' = "cut" /\ pc' = label) \/ pc' = "returned"
<1>1. PICK m \in Message : /\ PushChar(c, m) /\ errmsg' = m /\ lexing' = lexing
                           /\ m = "none" => pc' = label
                           /\ m # "none" => pc' = "returned"
  BY DEF PushThen
<1>2. c \in Cell /\ errmsg = "none" /\ lexing = "cut"
  BY NumberCells DEF NumberCells, CallInv
<1>3. QED
  BY <1>1, <1>2 DEF WriteByte

LEMMA RejectCuts ==
  ASSUME CallInv, pc \notin {"init", "returned"}, Reject
  PROVE  CutToken /\ pc' = "returned"
BY DEF CallInv, Reject, CutToken

LEMMA PeekIsIdle ==
  ASSUME CallInv, NEW c, NEW label, PeekThen(c, label)
  PROVE  UNCHANGED tokenVars /\ pc' = label
BY DEF PeekThen

(* One action at a time: a step of the lexer is a step of the buffer, and
   leaves the call where the next one may go on. *)
LEMMA NumberStep ==
  CallInv /\ [NumberNext]_numberVars => [TokenNext]_tokenVars /\ CallInv'
<1> SUFFICES ASSUME CallInv, [NumberNext]_numberVars
             PROVE  [TokenNext]_tokenVars /\ CallInv'
  OBVIOUS
<1> DEFINE Goes(label) == errmsg' = "none" /\ lexing' = "cut" /\ pc' = label
<1>1. CASE InitBuffer
  <2>1. BeginToken
    BY <1>1 DEF InitBuffer, BeginToken, CallInv
  <2>2. lexing' = "cut" /\ (Goes("first") \/ pc' = "returned")
    BY <1>1 DEF InitBuffer
  <2>3. QED
    BY <2>1, <2>2 DEF TokenNext, CallInv
<1>2. CASE First
  <2>1. PICK c \in Byte, label \in {"sign", "point", "integer"} : PushThen(c, label)
    BY <1>2 DEF First, TakeThen
  <2>2. WriteByte /\ (Goes(label) \/ pc' = "returned")
    BY <1>2, <2>1, PushThenWrites DEF First
  <2>3. QED
    BY <2>1, <2>2 DEF TokenNext, CallInv
<1>3. CASE AfterSign
  <2>1. CASE Reject
    BY <1>3, <2>1, RejectCuts DEF AfterSign, TokenNext, CallInv
  <2>2. CASE ~Reject
    <3>1. PICK c \in Digits, label \in {"point", "integer"} : PushThen(c, label)
      BY <1>3, <2>2 DEF AfterSign, TakeThen
    <3>2. c \in Byte
      BY DEF Byte, Digits
    <3>3. WriteByte /\ (Goes(label) \/ pc' = "returned")
      BY <1>3, <3>1, <3>2, PushThenWrites DEF AfterSign
    <3>4. QED
      BY <3>1, <3>3 DEF TokenNext, CallInv
  <2>3. QED
    BY <2>1, <2>2
<1>4. CASE Integer
  <2>1. PICK c \in Shown : \/ PeekThen(c, "digits") /\ return' = "point"
                           \/ PeekThen(c, "point")
    BY <1>4 DEF Integer, InDigits
  <2>2. UNCHANGED tokenVars /\ ((pc' = "digits" /\ return' = "point") \/ pc' = "point")
    BY <2>1, PeekIsIdle
  <2>3. QED
    BY <1>4, <2>2 DEF Integer, CallInv, tokenVars
<1>5. CASE ReadDigits
  <2>1. pc = "digits" /\ return \in {"point", "exponent", "end"}
    BY <1>5 DEF ReadDigits, CallInv
  <2>2. CASE \E c \in Digits : TakeThen(c, "digits") /\ nread' = TRUE /\ UNCHANGED return
    <3>1. PICK c \in Digits : PushThen(c, "digits") /\ return' = return
      BY <2>2 DEF TakeThen
    <3>2. c \in Byte
      BY DEF Byte, Digits
    <3>3. WriteByte /\ (Goes("digits") \/ pc' = "returned")
      BY <2>1, <3>1, <3>2, PushThenWrites
    <3>4. QED
      BY <2>1, <3>1, <3>3 DEF TokenNext, CallInv
  <2>3. CASE \E c \in Shown : PeekThen(c, return)
    BY <2>1, <2>3, PeekIsIdle DEF CallInv, tokenVars
  <2>4. CASE Reject
    BY <2>1, <2>4, RejectCuts DEF TokenNext, CallInv
  <2>5. QED
    BY <1>5, <2>2, <2>3, <2>4 DEF ReadDigits
<1>6. CASE Point
  <2>1. CASE TakeThen(".", "digits") /\ InDigits("exponent")
    <3>1. PushThen(".", "digits") /\ return' = "exponent" /\ "." \in Byte
      BY <2>1 DEF TakeThen, InDigits, Byte
    <3>2. WriteByte /\ (Goes("digits") \/ pc' = "returned")
      BY <1>6, <3>1, PushThenWrites DEF Point
    <3>3. QED
      BY <3>1, <3>2 DEF TokenNext, CallInv
  <2>2. CASE \E c \in Shown \union {"e", Nul} : PeekThen(c, "exponent") \/ PeekThen(c, "end")
    BY <1>6, <2>2, PeekIsIdle DEF Point, CallInv, tokenVars
  <2>3. QED
    BY <1>6, <2>1, <2>2 DEF Point
<1>7. CASE Exponent
  <2>1. CASE TakeThen("e", "power")
    <3>1. PushThen("e", "power") /\ "e" \in Byte
      BY <2>1 DEF TakeThen, Byte
    <3>2. WriteByte /\ (Goes("power") \/ pc' = "returned")
      BY <1>7, <3>1, PushThenWrites DEF Exponent
    <3>3. QED
      BY <3>2 DEF TokenNext, CallInv
  <2>2. CASE \E c \in Shown : PeekThen(c, "end")
    BY <1>7, <2>2, PeekIsIdle DEF Exponent, CallInv, tokenVars
  <2>3. QED
    BY <1>7, <2>1, <2>2 DEF Exponent
<1>8. CASE Power
  <2>1. CASE \E c \in {"+", "-"} : TakeThen(c, "digits") /\ InDigits("end")
    <3>1. PICK c \in {"+", "-"} : PushThen(c, "digits") /\ return' = "end"
      BY <2>1 DEF TakeThen, InDigits
    <3>2. c \in Byte
      BY DEF Byte
    <3>3. WriteByte /\ (Goes("digits") \/ pc' = "returned")
      BY <1>8, <3>1, <3>2, PushThenWrites DEF Power
    <3>4. QED
      BY <3>1, <3>3 DEF TokenNext, CallInv
  <2>2. CASE \E c \in Digits : PeekThen(c, "digits") /\ InDigits("end")
    BY <1>8, <2>2, PeekIsIdle DEF Power, InDigits, CallInv, tokenVars
  <2>3. CASE Reject
    BY <1>8, <2>3, RejectCuts DEF Power, TokenNext, CallInv
  <2>4. QED
    BY <1>8, <2>1, <2>2, <2>3 DEF Power
<1>9. CASE Terminate
  <2>1. EndToken
    BY <1>9 DEF Terminate, EndToken, CallInv
  <2>2. QED
    BY <1>9, <2>1 DEF Terminate, TokenNext, CallInv
<1>10. CASE UNCHANGED numberVars
  BY <1>10 DEF numberVars, tokenVars, CallInv
<1>11. CASE Returned
  BY <1>10, <1>11 DEF Returned
<1>12. QED
  BY <1>1, <1>2, <1>3, <1>4, <1>5, <1>6, <1>7, <1>8, <1>9, <1>10, <1>11
     DEF NumberNext

(***************************************************************************)
(* readNumber writes the token buffer only as TokenBuffer says it is       *)
(* written, for numbers of any length and whatever the allocator answers.  *)
(***************************************************************************)
THEOREM NumberDrivesBuffer == NumberSpec => DrivesTokenBuffer
BY CallInvInit, NumberStep, PTL DEF NumberSpec, DrivesTokenBuffer

(* The buffer an earlier token left satisfies the buffer's invariant. *)
LEMMA StaleBufferInv == NumberInit => BufferInv
<1>1. 0 \in 0 .. BufferMax /\ InitialSize \in 0 .. BufferMax
  BY BufferAssumption DEF BufferAssumption
<1>2. "other" \in Cell
  BY NumberCells DEF NumberCells, Byte
<1>3. QED
  BY <1>1, <1>2, NoBlockInv, ShortBlockInv DEF NumberInit, StaleBuffer, BufferInit

(***************************************************************************)
(* Whatever number is read and wherever it is cut short, the bytes         *)
(* getNumber scans were written by the lexers.                             *)
(***************************************************************************)
THEOREM NumberBytesAreWritten == NumberSpec => []FilledBytesWritten
<1>1. BufferInv => FilledBytesWritten
  BY DEF BufferInv
<1>2. QED
  BY <1>1, StaleBufferInv, CallInvInit, NumberStep, BufferInvKept, PTL DEF NumberSpec

-----------------------------------------------------------------------------
(* f is the run of the automaton over the first n bytes of s. *)
IsRun(f, s, n) ==
  f = [k \in 0 .. n |-> IF k = 0 THEN "start" ELSE Rfc8259(f[k - 1], s[k])]

LEMMA RunValues ==
  ASSUME NEW f, NEW s, NEW n \in Nat, IsRun(f, s, n)
  PROVE  /\ f[0] = "start"
         /\ \A k \in Nat : k < n => f[k + 1] = Rfc8259(f[k], s[k + 1])
<1>1. f[0] = "start"
  BY DEF IsRun
<1>2. ASSUME NEW k \in Nat, k < n PROVE f[k + 1] = Rfc8259(f[k], s[k + 1])
  <2>1. k + 1 \in 0 .. n /\ k + 1 # 0 /\ (k + 1) - 1 = k
    BY <1>2
  <2>2. QED
    BY <2>1 DEF IsRun
<1>3. QED
  BY <1>1, <1>2

LEMMA RunExists == \A s : \A n \in Nat : \E f : IsRun(f, s, n)
<1> SUFFICES ASSUME NEW s PROVE \A n \in Nat : \E f : IsRun(f, s, n)
  OBVIOUS
<1> DEFINE T == {n \in Nat : \E f : IsRun(f, s, n)}
<1>1. 0 \in T
  <2> DEFINE f == [k \in 0 .. 0 |-> "start"]
  <2>1. f = [k \in 0 .. 0 |-> IF k = 0 THEN "start" ELSE Rfc8259(f[k - 1], s[k])]
    OBVIOUS
  <2>2. QED
    BY <2>1 DEF IsRun
<1>2. ASSUME NEW n \in Nat, n \in T PROVE n + 1 \in T
  <2>1. PICK f : IsRun(f, s, n)
    BY <1>2
  <2> DEFINE g == [k \in 0 .. n + 1 |-> IF k = n + 1 THEN Rfc8259(f[n], s[n + 1]) ELSE f[k]]
  <2>2. ASSUME NEW k \in 0 .. n + 1
        PROVE  g[k] = IF k = 0 THEN "start" ELSE Rfc8259(g[k - 1], s[k])
    <3>1. CASE k = 0
      <4>1. 0 # n + 1
        OBVIOUS
      <4>2. f[0] = "start"
        BY <2>1, RunValues
      <4>3. QED
        BY <3>1, <4>1, <4>2
    <3>2. CASE k = n + 1
      <4>1. k - 1 = n /\ n \in 0 .. n + 1 /\ n # n + 1 /\ k # 0
        BY <3>2
      <4>2. QED
        BY <3>2, <4>1
    <3>3. CASE k # 0 /\ k # n + 1
      <4>1. PICK j \in Nat : k = j + 1 /\ j < n
        <5>1. k - 1 \in Nat /\ k = (k - 1) + 1 /\ k - 1 < n
          BY <3>3
        <5>2. QED
          BY <5>1
      <4>2. f[j + 1] = Rfc8259(f[j], s[j + 1])
        BY <2>1, <4>1, RunValues
      <4>3. g[k] = f[k] /\ g[j] = f[j] /\ k - 1 = j
        BY <3>3, <4>1
      <4>4. QED
        BY <3>3, <4>1, <4>2, <4>3
    <3>4. QED
      BY <3>1, <3>2, <3>3
  <2>3. IsRun(g, s, n + 1)
    <3>1. g = [k \in 0 .. n + 1 |-> g[k]]
      OBVIOUS
    <3>2. [k \in 0 .. n + 1 |-> g[k]]
            = [k \in 0 .. n + 1 |-> IF k = 0 THEN "start" ELSE Rfc8259(g[k - 1], s[k])]
      BY <2>2
    <3> HIDE DEF g
    <3>3. QED
      BY <3>1, <3>2 DEF IsRun
  <2>4. QED
    BY <2>3
<1>3. \A n \in Nat : n \in T
  <2> HIDE DEF T
  <2>1. QED
    BY <1>1, <1>2, Induction
<1>4. QED
  BY <1>3

(* Over a prefix of what another run reads, two runs agree. *)
LEMMA RunsAgree ==
  ASSUME NEW f, NEW s, NEW n \in Nat, IsRun(f, s, n),
         NEW g, NEW t, NEW m \in Nat, IsRun(g, t, m),
         n <= m, \A k \in Nat : k < n => s[k + 1] = t[k + 1]
  PROVE  f[n] = g[n]
<1> DEFINE T == {k \in Nat : k <= n => f[k] = g[k]}
<1>1. 0 \in T
  BY RunValues
<1>2. ASSUME NEW k \in Nat, k \in T PROVE k + 1 \in T
  <2>1. CASE k + 1 <= n
    <3>1. k < n /\ k < m /\ k <= n
      BY <2>1
    <3>2. f[k] = g[k] /\ s[k + 1] = t[k + 1]
      BY <1>2, <3>1
    <3>3. f[k + 1] = Rfc8259(f[k], s[k + 1]) /\ g[k + 1] = Rfc8259(g[k], t[k + 1])
      BY <3>1, RunValues
    <3>4. QED
      BY <3>2, <3>3
  <2>2. QED
    BY <2>1
<1>3. \A k \in Nat : k \in T
  <2> HIDE DEF T
  <2>1. QED
    BY <1>1, <1>2, Induction
<1>4. QED
  BY <1>3

(* What the automaton has reached after the bytes s. *)
After(s) == (CHOOSE f : IsRun(f, s, Len(s)))[Len(s)]

LEMMA ReachedIsAfter == Reached = After(read) /\ Reached' = After(read')
BY DEF Reached, Run, After, IsRun

LEMMA AfterNothing == After(<<>>) = "start"
<1> DEFINE f == CHOOSE f : IsRun(f, <<>>, 0)
<1>1. IsRun(f, <<>>, 0)
  BY RunExists
<1> HIDE DEF f
<1>2. f[0] = "start"
  BY <1>1, RunValues
<1>3. QED
  BY <1>2 DEF After, f

(* A byte more is a step of the automaton more. *)
LEMMA AfterAppend ==
  ASSUME NEW S, NEW s \in Seq(S), NEW c \in S
  PROVE  After(Append(s, c)) = Rfc8259(After(s), c)
<1> DEFINE t == Append(s, c)
<1>1. PICK n \in Nat : n = Len(s)
  OBVIOUS
<1>2. /\ Len(t) = n + 1 /\ t[n + 1] = c
      /\ \A k \in Nat : k < n => s[k + 1] = t[k + 1]
  <2>1. Len(t) = n + 1 /\ t[n + 1] = c /\ \A k \in 1 .. n : t[k] = s[k]
    BY <1>1, AppendProperties
  <2>2. \A k \in Nat : k < n => k + 1 \in 1 .. n
    OBVIOUS
  <2>3. QED
    BY <2>1, <2>2
<1> DEFINE f == CHOOSE f : IsRun(f, s, n)
<1> DEFINE g == CHOOSE g : IsRun(g, t, n + 1)
<1> HIDE DEF t
<1>3. IsRun(f, s, n) /\ IsRun(g, t, n + 1)
  <2>1. n + 1 \in Nat
    OBVIOUS
  <2>2. QED
    BY <2>1, RunExists
<1>4. After(s) = f[n] /\ After(t) = g[n + 1]
  BY <1>1, <1>2 DEF After
<1> HIDE DEF f, g
<1>5. f[n] = g[n]
  <2>1. n + 1 \in Nat /\ n <= n + 1
    OBVIOUS
  <2>2. QED
    BY <1>2, <1>3, <2>1, RunsAgree
<1>6. g[n + 1] = Rfc8259(g[n], t[n + 1])
  <2>1. n + 1 \in Nat /\ n < n + 1
    OBVIOUS
  <2>2. QED
    BY <1>3, <2>1, RunValues
<1>7. QED
  BY <1>2, <1>4, <1>5, <1>6 DEF t

-----------------------------------------------------------------------------
(* What the call knows of the number where it is: the automaton has the
   state its place stands for, and a byte seen and not taken is one that
   brought it there. *)
PlaceInv ==
  /\ pc \in {"init", "first"} => Reached = "start" /\ ahead \in {"-"} \union Digits
  /\ pc = "sign" => Reached = "minus" /\ ahead = "none"
  /\ pc = "integer" => Reached = "int"
  /\ pc = "digits" =>
       \/ return = "point" /\ Reached = "int" /\ (nread \/ ahead \in Digits)
       \/ return = "exponent" /\ Reached = IF nread THEN "frac" ELSE "point"
       \/ return = "end" /\ ~nread /\ Reached = "e" /\ ahead \in Digits
       \/ return = "end" /\ Reached = IF nread THEN "exp" ELSE "sign"
  /\ pc = "point" =>
       \/ Reached = "zero"
       \/ Reached = "int" /\ ahead \notin Digits \union {"none"}
  /\ pc = "exponent" =>
       \/ Reached \in {"zero", "int"} /\ ahead \in {"e", Nul}
       \/ Reached = "frac" /\ ahead \notin Digits \union {"none"}
  /\ pc = "power" => Reached = "e"
  /\ pc = "end" => Reached \in Final /\ Rfc8259(Reached, ahead) = "dead"

(* Nothing of the number is a number that goes on. *)
NotANumber ==
  \/ Reached = "dead"
  \/ Reached \notin Final /\ ahead = EOF
  \/ Rfc8259(Reached, ahead) = "dead" /\ Reached \notin Final

(* The text written is the bytes read, until the terminator. *)
LexInv ==
  /\ read \in Seq(Byte)
  /\ ahead \in Byte \union {EOF, "none"}
  /\ nread \in BOOLEAN
  /\ pc = "init" => read = <<>>
  /\ pc \notin {"init", "returned"} => Text = read
  /\ pc # "returned" => value = "none"
  /\ PlaceInv
  /\ errmsg = "syntax" => NotANumber
  /\ NumberIsLongest

Shows == CallInv /\ BufferInv /\ LexInv /\ pc \notin {"init", "returned"}

LEMMA LexInvInit == NumberInit => LexInv
<1> SUFFICES ASSUME NumberInit PROVE LexInv
  OBVIOUS
<1>1. read = <<>> /\ Reached = "start"
  BY AfterNothing, ReachedIsAfter DEF NumberInit
<1>2. pc = "init" /\ errmsg = "none" /\ value = "none" /\ nread \in BOOLEAN
  BY DEF NumberInit
<1>3. ahead \in {"-"} \union Digits /\ ahead \in Byte
  BY DEF NumberInit, Digits, Byte
<1>4. PlaceInv
  BY <1>1, <1>2, <1>3 DEF PlaceInv
<1>5. read \in Seq(Byte)
  BY <1>1
<1>6. QED
  BY <1>1, <1>2, <1>3, <1>4, <1>5 DEF LexInv, NumberIsLongest

(* Taking a byte: it is read and written, or the call returns out of memory. *)
Taken(c, label) ==
  /\ ahead' = "none" /\ read' = Append(read, c) /\ read' \in Seq(Byte)
  /\ Reached' = Rfc8259(Reached, c)
  /\ \/ pc' = label /\ errmsg' = "none" /\ value' = value /\ Text' = read'
     \/ pc' = "returned" /\ errmsg' = "oom" /\ value' = "error"

LEMMA ConsumeReads ==
  ASSUME LexInv, NEW c \in Byte, Consume(c)
  PROVE  /\ c \in Shown
         /\ ahead' = "none" /\ read' = Append(read, c) /\ read' \in Seq(Byte)
         /\ Reached' = Rfc8259(Reached, c)
<1>1. c # EOF
  BY DEF Byte, EOF
<1>2. c \in Shown /\ ahead' = "none" /\ read' = Append(read, c)
  BY <1>1 DEF Consume
<1>3. read \in Seq(Byte) /\ read' \in Seq(Byte)
  BY <1>2, AppendProperties DEF LexInv
<1>4. Reached' = Rfc8259(Reached, c)
  BY <1>2, <1>3, ReachedIsAfter, AfterAppend
<1>5. QED
  BY <1>2, <1>3, <1>4

LEMMA PushThenAppends ==
  ASSUME CallInv, BufferInv, pc \notin {"init", "returned"}, NEW c \in Byte, NEW label,
         PushThen(c, label)
  PROVE  \/ pc' = label /\ errmsg' = "none" /\ value' = value /\ Text' = Append(Text, c)
         \/ pc' = "returned" /\ errmsg' = "oom" /\ value' = "error"
<1>1. PICK m \in Message : /\ PushChar(c, m) /\ errmsg' = m
                           /\ m = "none" => pc' = label /\ value' = value
                           /\ m # "none" => pc' = "returned" /\ value' = "error"
  BY DEF PushThen
<1>2. allocated /\ c \in Cell
  BY NumberCells DEF NumberCells, CallInv, BufferInv
<1>3. m \in {"none", "oom"} /\ (m = "none" => Text' = Append(Text, c))
  BY <1>1, <1>2, PushCharAppends
<1>4. QED
  BY <1>1, <1>3

LEMMA TakeReads ==
  ASSUME Shows, NEW c \in Byte, NEW label, TakeThen(c, label)
  PROVE  Taken(c, label) /\ c \in Shown
<1>1. Consume(c) /\ PushThen(c, label)
  BY DEF TakeThen
<1>2. Text = read
  BY DEF Shows, LexInv
<1>3. QED
  BY <1>1, <1>2, ConsumeReads, PushThenAppends DEF Shows, Taken

(* After a byte is taken, all that is owed is what its new place says. *)
LEMMA TakenIsSound ==
  ASSUME Shows, NEW c, NEW label, label \notin {"init", "returned"}, Taken(c, label),
         nread' \in BOOLEAN,
         pc' = label => PlaceInv'
  PROVE  LexInv'
<1>1. value = "none"
  BY DEF Shows, LexInv
<1>2. CASE pc' = label /\ errmsg' = "none" /\ value' = value /\ Text' = read'
  BY <1>1, <1>2 DEF Taken, LexInv, NumberIsLongest
<1>3. CASE pc' = "returned" /\ errmsg' = "oom" /\ value' = "error"
  BY <1>3 DEF Taken, LexInv, NumberIsLongest, PlaceInv
<1>4. QED
  BY <1>2, <1>3 DEF Taken

(* A byte shown is a byte, or the end. *)
LEMMA ShownIsByte ==
  ASSUME LexInv, NEW c \in Shown
  PROVE  c \in Byte \union {EOF} /\ (ahead # "none" => c = ahead)
BY DEF LexInv, Shown, Answers

(* A byte peeked at changes nothing of the number. *)
Peeked(c, label) ==
  /\ ahead' = c /\ c \in Byte \union {EOF} /\ (ahead # "none" => c = ahead)
  /\ read' = read /\ Reached' = Reached /\ Text' = Text
  /\ errmsg' = errmsg /\ value' = value /\ pc' = label

LEMMA PeekShows ==
  ASSUME Shows, NEW c, NEW label, PeekThen(c, label)
  PROVE  Peeked(c, label)
<1>1. read' = read /\ Reached' = Reached
  BY ReachedIsAfter DEF PeekThen
<1>2. Text' = Text /\ errmsg' = errmsg
  BY DEF PeekThen, tokenVars, bufferVars, Text
<1>3. QED
  BY <1>1, <1>2, ShownIsByte DEF PeekThen, Peeked, Shows

LEMMA PeekedIsSound ==
  ASSUME Shows, NEW c, NEW label, label \notin {"init", "returned"}, Peeked(c, label),
         nread' \in BOOLEAN, PlaceInv'
  PROVE  LexInv'
<1>1. value = "none" /\ errmsg = "none" /\ Text = read
  BY DEF Shows, LexInv, CallInv
<1>2. QED
  BY <1>1 DEF Peeked, Shows, LexInv, NumberIsLongest

(* A refusal owes that what was read and seen is no number. *)
LEMMA RejectIsSound ==
  ASSUME Reject, ahead' \in Byte \union {EOF, "none"}, read' \in Seq(Byte),
         nread' \in BOOLEAN, NotANumber'
  PROVE  LexInv'
BY DEF Reject, LexInv, NumberIsLongest, PlaceInv

LEMMA LexInvKept ==
  CallInv /\ BufferInv /\ LexInv /\ [NumberNext]_numberVars => LexInv'
<1> SUFFICES ASSUME CallInv, BufferInv, LexInv, [NumberNext]_numberVars
             PROVE  LexInv'
  OBVIOUS
<1>0. pc \notin {"init", "returned"} => Shows
  BY DEF Shows
<1>1. CASE InitBuffer
  <2>1. PICK m \in Message :
          /\ InitString(m) /\ errmsg' = m
          /\ m = "none" => pc' = "first" /\ value' = value
          /\ m # "none" => pc' = "returned" /\ value' = "error"
    BY <1>1 DEF InitBuffer
  <2>2. m \in {"none", "oom"} /\ stringFill' = 0
    BY <2>1, InitStringFacts
  <2>3. Text' = <<>>
    BY <2>2, EmptyText
  <2>4. pc = "init" /\ ahead' = ahead /\ read' = read /\ nread' = nread /\ return' = return
    BY <1>1 DEF InitBuffer, KeepDigits
  <2>5. Reached' = Reached
    BY <2>4, ReachedIsAfter
  <2>6. CASE m = "none"
    <3>1. PlaceInv'
      BY <2>1, <2>4, <2>5, <2>6 DEF LexInv, PlaceInv
    <3>2. QED
      BY <2>1, <2>3, <2>4, <2>6, <3>1 DEF LexInv, NumberIsLongest
  <2>7. CASE m # "none"
    BY <2>1, <2>2, <2>4, <2>7 DEF LexInv, NumberIsLongest, PlaceInv
  <2>8. QED
    BY <2>6, <2>7
<1>2. CASE First
  <2> DEFINE label(c) == CASE c = "-" -> "sign" [] c = "0" -> "point" [] OTHER -> "integer"
  <2>1. PICK c \in Byte : TakeThen(c, label(c))
    BY <1>2 DEF First
  <2>2. PICK l : l = label(c)
    OBVIOUS
  <2>3. Shows
    BY <1>0, <1>2 DEF First
  <2>4. Taken(c, l) /\ c \in Shown
    BY <2>1, <2>2, <2>3, TakeReads
  <2>5. Reached = "start" /\ c \in {"-"} \union Digits
    BY <1>2, <2>4, ShownIsByte DEF First, LexInv, PlaceInv, Digits
  <2>6. /\ c = "-" => l = "sign" /\ Reached' = "minus"
        /\ c = "0" => l = "point" /\ Reached' = "zero"
        /\ c = "1-9" => l = "integer" /\ Reached' = "int"
    BY <2>2, <2>4, <2>5 DEF Taken, Rfc8259
  <2>7. pc' = l => PlaceInv'
    BY <2>4, <2>5, <2>6 DEF Taken, PlaceInv, Digits
  <2>8. l \notin {"init", "returned"} /\ nread' \in BOOLEAN
    BY <1>2, <2>5, <2>6 DEF First, KeepDigits, LexInv, Digits
  <2>9. QED
    BY <2>3, <2>4, <2>7, <2>8, TakenIsSound
<1>3. CASE AfterSign
  <2>1. Shows /\ Reached = "minus" /\ nread' \in BOOLEAN
    BY <1>0, <1>3 DEF AfterSign, LexInv, PlaceInv, KeepDigits
  <2>2. ASSUME NEW c \in Digits, TakeThen(c, IF c = "0" THEN "point" ELSE "integer")
        PROVE  LexInv'
    <3>1. PICK l : l = IF c = "0" THEN "point" ELSE "integer"
      OBVIOUS
    <3>2. c \in Byte
      BY DEF Byte, Digits
    <3>3. Taken(c, l)
      BY <2>1, <2>2, <3>1, <3>2, TakeReads
    <3>4. /\ c = "0" => l = "point" /\ Reached' = "zero"
          /\ c = "1-9" => l = "integer" /\ Reached' = "int"
      BY <2>1, <3>1, <3>3 DEF Taken, Rfc8259
    <3>5. l \notin {"init", "returned"} /\ (pc' = l => PlaceInv')
      BY <3>3, <3>4 DEF Taken, PlaceInv, Digits
    <3>6. QED
      BY <2>1, <3>3, <3>5, TakenIsSound
  <2>3. ASSUME NEW c \in Answers \ Digits, Consume(c), Reject
        PROVE  LexInv'
    <3>1. CASE c = EOF
      <4>1. ahead' = EOF /\ read' = read /\ Reached' = "minus"
        BY <2>1, <2>3, <3>1, ReachedIsAfter DEF Consume
      <4>2. NotANumber'
        BY <4>1 DEF NotANumber, Final
      <4>3. QED
        BY <2>1, <2>3, <4>1, <4>2, RejectIsSound DEF LexInv
    <3>2. CASE c # EOF
      <4>1. c \in Byte
        BY <3>2 DEF Answers
      <4>2. ahead' = "none" /\ read' \in Seq(Byte) /\ Reached' = "dead"
        BY <2>1, <2>3, <4>1, ConsumeReads DEF Rfc8259, Digits, Shows
      <4>3. NotANumber'
        BY <4>2 DEF NotANumber
      <4>4. QED
        BY <2>1, <2>3, <4>2, <4>3, RejectIsSound
    <3>3. QED
      BY <3>1, <3>2
  <2>4. QED
    BY <1>3, <2>2, <2>3 DEF AfterSign
<1>4. CASE Integer
  <2>1. Shows /\ Reached = "int"
    BY <1>0, <1>4 DEF Integer, LexInv, PlaceInv
  <2>2. PICK c \in Shown : IF c \in Digits
                           THEN PeekThen(c, "digits") /\ InDigits("point")
                           ELSE PeekThen(c, "point") /\ KeepDigits
    BY <1>4 DEF Integer
  <2>3. PICK l \in {"digits", "point"} :
          /\ l = IF c \in Digits THEN "digits" ELSE "point"
          /\ PeekThen(c, l)
    BY <2>2
  <2>4. Peeked(c, l)
    BY <2>1, <2>3, PeekShows
  <2>5. nread' \in BOOLEAN
    BY <2>1, <2>2 DEF InDigits, KeepDigits, Shows, LexInv
  <2>6. PlaceInv'
    <3>1. CASE c \in Digits
      BY <2>1, <2>2, <2>3, <2>4, <3>1 DEF InDigits, Peeked, PlaceInv
    <3>2. CASE c \notin Digits
      <4>1. c # "none"
        BY <2>4 DEF Peeked, Byte, EOF
      <4>2. QED
        BY <2>1, <2>2, <2>3, <2>4, <3>2, <4>1 DEF Peeked, PlaceInv
    <3>3. QED
      BY <3>1, <3>2
  <2>7. QED
    BY <2>1, <2>4, <2>5, <2>6, PeekedIsSound
<1>5. CASE ReadDigits
  <2>1. /\ Shows /\ pc = "digits"
        /\ \/ return = "point" /\ Reached = "int" /\ (nread \/ ahead \in Digits)
           \/ return = "exponent" /\ Reached = IF nread THEN "frac" ELSE "point"
           \/ return = "end" /\ ~nread /\ Reached = "e" /\ ahead \in Digits
           \/ return = "end" /\ Reached = IF nread THEN "exp" ELSE "sign"
    BY <1>0, <1>5 DEF ReadDigits, LexInv, PlaceInv
  <2>2. ASSUME NEW c \in Digits, TakeThen(c, "digits"), nread' = TRUE, return' = return
        PROVE  LexInv'
    <3>1. c \in Byte
      BY DEF Byte, Digits
    <3>2. Taken(c, "digits")
      BY <2>1, <2>2, <3>1, TakeReads
    <3>3. /\ return = "point" => Reached' = "int"
          /\ return = "exponent" => Reached' = "frac"
          /\ return = "end" => Reached' = "exp"
      BY <2>1, <3>2 DEF Taken, Rfc8259, Digits
    <3>4. pc' = "digits" => PlaceInv'
      BY <2>1, <2>2, <3>3 DEF PlaceInv
    <3>5. QED
      BY <2>1, <2>2, <3>2, <3>4, TakenIsSound
  <2>3. ASSUME NEW c \in Shown \ Digits, nread = TRUE, PeekThen(c, return), KeepDigits
        PROVE  LexInv'
    <3>1. Peeked(c, return) /\ nread' = nread
      BY <2>1, <2>3, PeekShows DEF KeepDigits
    <3>2. c # "none"
      BY <3>1 DEF Peeked, Byte, EOF
    <3>3. return = "end" => Rfc8259("exp", c) = "dead"
      BY DEF Rfc8259
    <3>4. PlaceInv'
      BY <2>1, <2>3, <3>1, <3>2, <3>3 DEF Peeked, PlaceInv, Final
    <3>5. QED
      BY <2>1, <2>3, <3>1, <3>4, PeekedIsSound
  <2>4. ASSUME NEW c \in Shown \ Digits, nread = FALSE, Reject, ahead' = c,
               read' = read, KeepDigits
        PROVE  LexInv'
    <3>1. c \in Byte \union {EOF} /\ (ahead # "none" => c = ahead) /\ nread' = nread
      BY <2>1, <2>4, ShownIsByte DEF Shows, KeepDigits
    <3>2. Reached \in {"point", "sign"}
      BY <2>1, <2>4, <3>1 DEF Digits
    <3>3. Rfc8259(Reached, c) = "dead" /\ Reached \notin Final
      BY <2>4, <3>2 DEF Rfc8259, Final
    <3>4. NotANumber'
      BY <2>4, <3>3, ReachedIsAfter DEF NotANumber
    <3>5. QED
      BY <2>1, <2>4, <3>1, <3>4, RejectIsSound DEF Shows, LexInv
  <2>5. nread \in BOOLEAN
    BY DEF LexInv
  <2>6. QED
    BY <1>5, <2>2, <2>3, <2>4, <2>5 DEF ReadDigits
<1>6. CASE Point
  <2>1. /\ Shows /\ pc = "point"
        /\ Reached = "zero" \/ (Reached = "int" /\ ahead \notin Digits \union {"none"})
    BY <1>0, <1>6 DEF Point, LexInv, PlaceInv
  <2>2. CASE TakeThen(".", "digits") /\ InDigits("exponent")
    <3>1. Taken(".", "digits")
      BY <2>1, <2>2, TakeReads DEF Byte
    <3>2. Reached' = "point" /\ return' = "exponent" /\ nread' = FALSE
      BY <2>1, <2>2, <3>1 DEF Taken, Rfc8259, InDigits, Digits
    <3>3. pc' = "digits" => PlaceInv'
      BY <3>2 DEF PlaceInv
    <3>4. QED
      BY <2>1, <3>1, <3>2, <3>3, TakenIsSound
  <2>3. ASSUME NEW c \in {"e", Nul}, PeekThen(c, "exponent"), KeepDigits
        PROVE  LexInv'
    <3>1. Peeked(c, "exponent") /\ nread' \in BOOLEAN
      BY <2>1, <2>3, PeekShows DEF KeepDigits, LexInv
    <3>2. PlaceInv'
      BY <2>1, <3>1 DEF Peeked, PlaceInv
    <3>3. QED
      BY <2>1, <3>1, <3>2, PeekedIsSound
  <2>4. ASSUME NEW c \in Shown \ {".", "e", Nul}, PeekThen(c, "end"), KeepDigits
        PROVE  LexInv'
    <3>1. Peeked(c, "end") /\ nread' \in BOOLEAN
      BY <2>1, <2>4, PeekShows DEF KeepDigits, LexInv
    <3>2. Reached = "int" => c \notin Digits
      BY <2>1, <3>1 DEF Peeked
    <3>3. Rfc8259(Reached, c) = "dead" /\ Reached \in Final
      BY <2>1, <2>4, <3>2 DEF Rfc8259, Final
    <3>4. PlaceInv'
      BY <2>1, <3>1, <3>3 DEF Peeked, PlaceInv
    <3>5. QED
      BY <2>1, <3>1, <3>4, PeekedIsSound
  <2>5. QED
    BY <1>6, <2>2, <2>3, <2>4 DEF Point
<1>7. CASE Exponent
  <2>1. /\ Shows /\ pc = "exponent" /\ nread' \in BOOLEAN
        /\ \/ Reached \in {"zero", "int"} /\ ahead \in {"e", Nul}
           \/ Reached = "frac" /\ ahead \notin Digits \union {"none"}
    BY <1>0, <1>7 DEF Exponent, LexInv, PlaceInv, KeepDigits
  <2>2. CASE TakeThen("e", "power")
    <3>1. Taken("e", "power")
      BY <2>1, <2>2, TakeReads DEF Byte
    <3>2. Reached' = "e"
      BY <2>1, <3>1 DEF Taken, Rfc8259, Digits
    <3>3. pc' = "power" => PlaceInv'
      BY <3>2 DEF PlaceInv
    <3>4. QED
      BY <2>1, <3>1, <3>3, TakenIsSound
  <2>3. ASSUME NEW c \in Shown \ {"e"}, PeekThen(c, "end")
        PROVE  LexInv'
    <3>1. Peeked(c, "end")
      BY <2>1, <2>3, PeekShows
    <3>2. Nul = "nul"
      BY NumberCells DEF NumberCells
    <3>3. c = ahead /\ (Reached = "frac" => c \notin Digits) /\ (Reached # "frac" => c = Nul)
      BY <2>1, <2>3, <3>1, <3>2 DEF Peeked
    <3>4. Rfc8259(Reached, c) = "dead" /\ Reached \in Final
      BY <2>1, <2>3, <3>2, <3>3 DEF Rfc8259, Final, Digits
    <3>5. PlaceInv'
      BY <2>1, <3>1, <3>4 DEF Peeked, PlaceInv
    <3>6. QED
      BY <2>1, <3>1, <3>5, PeekedIsSound
  <2>4. QED
    BY <1>7, <2>2, <2>3 DEF Exponent
<1>8. CASE Power
  <2>1. Shows /\ pc = "power" /\ Reached = "e"
    BY <1>0, <1>8 DEF Power, LexInv, PlaceInv
  <2>2. ASSUME NEW c \in {"+", "-"}, TakeThen(c, "digits"), InDigits("end")
        PROVE  LexInv'
    <3>1. c \in Byte
      BY DEF Byte
    <3>2. Taken(c, "digits")
      BY <2>1, <2>2, <3>1, TakeReads
    <3>3. Reached' = "sign" /\ return' = "end" /\ nread' = FALSE
      BY <2>1, <2>2, <3>2 DEF Taken, Rfc8259, InDigits, Digits
    <3>4. pc' = "digits" => PlaceInv'
      BY <3>3 DEF PlaceInv
    <3>5. QED
      BY <2>1, <3>2, <3>3, <3>4, TakenIsSound
  <2>3. ASSUME NEW c \in Digits, PeekThen(c, "digits"), InDigits("end")
        PROVE  LexInv'
    <3>1. Peeked(c, "digits") /\ return' = "end" /\ nread' = FALSE
      BY <2>1, <2>3, PeekShows DEF InDigits
    <3>2. PlaceInv'
      BY <2>1, <3>1 DEF Peeked, PlaceInv
    <3>3. QED
      BY <2>1, <3>1, <3>2, PeekedIsSound
  <2>4. ASSUME NEW c \in Shown \ ({"+", "-"} \union Digits), Reject, ahead' = c,
               read' = read, KeepDigits
        PROVE  LexInv'
    <3>1. c \in Byte \union {EOF} /\ nread' = nread
      BY <2>1, <2>4, ShownIsByte DEF Shows, KeepDigits
    <3>2. Rfc8259(Reached, c) = "dead" /\ Reached \notin Final
      BY <2>1, <2>4 DEF Rfc8259, Final
    <3>3. NotANumber'
      BY <2>4, <3>2, ReachedIsAfter DEF NotANumber
    <3>4. QED
      BY <2>1, <2>4, <3>1, <3>3, RejectIsSound DEF Shows, LexInv
  <2>5. QED
    BY <1>8, <2>2, <2>3, <2>4 DEF Power
<1>9. CASE Terminate
  <2>1. PICK m \in Message :
          /\ PushChar(Nul, m) /\ errmsg' = m
          /\ value' = IF m = "none" THEN "number" ELSE "error"
    BY <1>9 DEF Terminate
  <2>2. /\ Text = read /\ Reached \in Final /\ Rfc8259(Reached, ahead) = "dead"
        /\ allocated /\ Nul \in Cell
    BY <1>9, BufferAssumption
       DEF Terminate, LexInv, PlaceInv, CallInv, BufferInv, BufferAssumption
  <2>3. m \in {"none", "oom"} /\ (m = "none" => Text' = Append(read, Nul))
    BY <2>1, <2>2, PushCharAppends
  <2>4. pc' = "returned" /\ ahead' = ahead /\ read' = read /\ nread' = nread
    BY <1>9 DEF Terminate, KeepDigits
  <2>5. Reached' = Reached
    BY <2>4, ReachedIsAfter
  <2>6. NumberIsLongest'
    BY <2>1, <2>2, <2>3, <2>4, <2>5 DEF NumberIsLongest
  <2>7. QED
    BY <2>1, <2>3, <2>4, <2>6 DEF LexInv, PlaceInv
<1>10. CASE UNCHANGED numberVars
  <2>1. /\ pc' = pc /\ ahead' = ahead /\ read' = read /\ return' = return
        /\ nread' = nread /\ value' = value /\ errmsg' = errmsg /\ Text' = Text
    BY <1>10 DEF numberVars, tokenVars, bufferVars, Text
  <2>2. Reached' = Reached
    BY <2>1, ReachedIsAfter
  <2>3. QED
    BY <2>1, <2>2 DEF LexInv, PlaceInv, NumberIsLongest, NotANumber
<1>11. CASE Returned
  BY <1>10, <1>11 DEF Returned
<1>12. QED
  BY <1>1, <1>2, <1>3, <1>4, <1>5, <1>6, <1>7, <1>8, <1>9, <1>10, <1>11
     DEF NumberNext

LEMMA NumberInvariant == NumberSpec => [](CallInv /\ BufferInv /\ LexInv)
BY CallInvInit, StaleBufferInv, LexInvInit, NumberStep, BufferInvKept, LexInvKept, PTL
   DEF NumberSpec

(***************************************************************************)
(* A NUMBER event is a number of RFC 8259, the longest the input starts    *)
(* with, and the buffer holds its bytes and the terminator: for numbers of *)
(* any length, any initial size of the buffer and any width of usize.      *)
(***************************************************************************)
THEOREM NumbersAreLongest == NumberSpec => []NumberIsLongest
<1>1. LexInv => NumberIsLongest
  BY DEF LexInv
<1>2. QED
  BY <1>1, NumberInvariant, PTL

(***************************************************************************)
(* readNumber refuses only what no number of RFC 8259 starts with.         *)
(***************************************************************************)
THEOREM RefusesNoNumber == NumberSpec => []RejectsOnlyNonNumbers
<1>1. LexInv => RejectsOnlyNonNumbers
  BY DEF LexInv, NotANumber, RejectsOnlyNonNumbers
<1>2. QED
  BY <1>1, NumberInvariant, PTL

-----------------------------------------------------------------------------
(* What a step of the loop comes to, for the token: the diagnostic, a look
   ahead, or a byte pushed. *)
Comes ==
  \/ Reject
  \/ \E c, label : PeekThen(c, label)
  \/ \E c \in Byte : \E label : PushThen(c, label)

LEMMA LoopComes ==
  ASSUME First \/ AfterSign \/ Integer \/ ReadDigits \/ Point \/ Exponent \/ Power
  PROVE  Comes
<1>0. Digits \subseteq Byte /\ {".", "e", "+", "-"} \subseteq Byte
  BY DEF Digits, Byte
<1>1. CASE First
  BY <1>1 DEF First, TakeThen, Comes
<1>2. CASE AfterSign
  BY <1>0, <1>2 DEF AfterSign, TakeThen, Comes
<1>3. CASE Integer
  BY <1>3 DEF Integer, Comes
<1>4. CASE ReadDigits
  BY <1>0, <1>4 DEF ReadDigits, TakeThen, Comes
<1>5. CASE Point
  BY <1>0, <1>5 DEF Point, TakeThen, Comes
<1>6. CASE Exponent
  BY <1>0, <1>6 DEF Exponent, TakeThen, Comes
<1>7. CASE Power
  BY <1>0, <1>7 DEF Power, TakeThen, Comes
<1>8. QED
  BY <1>1, <1>2, <1>3, <1>4, <1>5, <1>6, <1>7

(* An outcome of the contract ends the reading. *)
LEMMA ReaderEnds ==
  ASSUME value = "none",
         \/ value' = "number" /\ errmsg' = "none" /\ Held' = "number"
         \/ value' = "error" /\ errmsg' \in {"oom", "syntax"} /\ Held' = "cut"
         \/ value' = "error" /\ errmsg' = "oom" /\ Held' = "null" /\ Held = "null"
  PROVE  Reader!Next
<1> DEFINE o == [value |-> value', errmsg |-> errmsg', token |-> Held']
<1>1. o \in Reader!Outcomes("number", Held)
  <2>1. CASE value' = "number" /\ errmsg' = "none" /\ Held' = "number"
    BY <2>1 DEF Reader!Outcomes
  <2>2. CASE value' = "error" /\ errmsg' \in {"oom", "syntax"} /\ Held' = "cut"
    BY <2>2 DEF Reader!Outcomes
  <2>3. CASE value' = "error" /\ errmsg' = "oom" /\ Held' = "null" /\ Held = "null"
    BY <2>3 DEF Reader!Outcomes
  <2>4. QED
    BY <2>1, <2>2, <2>3
<1>2. value' = o.value /\ errmsg' = o.errmsg /\ Held' = o.token
  OBVIOUS
<1> HIDE DEF o
<1>3. QED
  BY <1>1, <1>2 DEF Reader!Next, Reader!Finish

(* Held is the buffer a reader of tokens sees. *)
LEMMA ReaderStep ==
  CallInv /\ BufferInv /\ LexInv /\ [NumberNext]_numberVars => [Reader!Next]_Reader!vars
<1> SUFFICES ASSUME CallInv, BufferInv, LexInv, [NumberNext]_numberVars
             PROVE  [Reader!Next]_Reader!vars
  OBVIOUS
<1>1. pc \notin {"init", "returned"} => allocated /\ value = "none" /\ errmsg = "none"
  BY DEF CallInv, BufferInv, LexInv
<1>2. ASSUME UNCHANGED <<allocated, value, errmsg>> PROVE [Reader!Next]_Reader!vars
  BY <1>2 DEF Held, Reader!vars
<1>3. ASSUME allocated, allocated', value = "none", value' = "error",
             errmsg' \in {"oom", "syntax"}
      PROVE  Reader!Next
  BY <1>3, ReaderEnds DEF Held
<1>4. CASE InitBuffer
  <2>1. PICK m \in Message : /\ InitString(m) /\ errmsg' = m
                             /\ m = "none" => pc' = "first" /\ value' = value
                             /\ m # "none" => pc' = "returned" /\ value' = "error"
    BY <1>4 DEF InitBuffer
  <2>2. value = "none" /\ errmsg = "none"
    BY <1>4 DEF InitBuffer, LexInv, CallInv
  <2>3. CASE m = "none"
    <3>1. allocated' = TRUE
      BY <2>1, <2>3 DEF InitString, BufferInv, BufferTypeOK
    <3>2. Held' = "cut"
      BY <2>1, <2>2, <2>3, <3>1 DEF Held
    <3>3. QED
      BY <2>1, <2>2, <2>3, <3>2 DEF Reader!Next, Reader!Begin
  <2>4. CASE m # "none"
    <3>1. m = "oom" /\ ~allocated /\ ~allocated'
      BY <2>1, <2>4 DEF InitString
    <3>2. Held = "null" /\ Held' = "null"
      BY <3>1 DEF Held
    <3>3. QED
      BY <2>1, <2>2, <2>4, <3>1, <3>2, ReaderEnds
  <2>5. QED
    BY <2>3, <2>4
<1>5. CASE First \/ AfterSign \/ Integer \/ ReadDigits \/ Point \/ Exponent \/ Power
  <2>1. allocated /\ value = "none" /\ errmsg = "none"
    BY <1>1, <1>5 DEF First, AfterSign, Integer, ReadDigits, Point, Exponent, Power
  <2>2. CASE Reject
    BY <1>3, <2>1, <2>2 DEF Reject, bufferVars
  <2>3. CASE \E c, label : PeekThen(c, label)
    BY <1>2, <2>3 DEF PeekThen, tokenVars, bufferVars
  <2>4. ASSUME NEW c \in Byte, NEW label, PushThen(c, label)
        PROVE  [Reader!Next]_Reader!vars
    <3>1. PICK m \in Message : /\ PushChar(c, m) /\ errmsg' = m
                               /\ m = "none" => value' = value
                               /\ m # "none" => value' = "error"
      BY <2>4 DEF PushThen
    <3>2. allocated' = allocated /\ m \in {"none", "oom"}
      BY <2>1, <3>1 DEF PushChar, bufferVars, BufferInv, BufferTypeOK
    <3>3. QED
      BY <1>2, <1>3, <2>1, <3>1, <3>2
  <2>5. QED
    BY <1>5, <2>2, <2>3, <2>4, LoopComes DEF Comes
<1>6. CASE Terminate
  <2>1. allocated /\ value = "none"
    BY <1>1, <1>6 DEF Terminate
  <2>2. PICK m \in Message : /\ PushChar(Nul, m) /\ errmsg' = m
                             /\ value' = IF m = "none" THEN "number" ELSE "error"
    BY <1>6 DEF Terminate
  <2>3. allocated' = allocated /\ m \in {"none", "oom"}
    BY <2>1, <2>2 DEF PushChar, bufferVars, BufferInv, BufferTypeOK
  <2>4. CASE m = "none"
    BY <2>1, <2>2, <2>3, <2>4, ReaderEnds DEF Held
  <2>5. CASE m = "oom"
    BY <1>3, <2>1, <2>2, <2>3, <2>5
  <2>6. QED
    BY <2>3, <2>4, <2>5
<1>7. CASE Returned \/ UNCHANGED numberVars
  BY <1>2, <1>7 DEF Returned, numberVars, tokenVars, bufferVars
<1>8. QED
  BY <1>4, <1>5, <1>6, <1>7 DEF NumberNext

(***************************************************************************)
(* readNumber is a token reader as far as it goes: it empties the buffer,  *)
(* ends once, in an outcome JsonParser allows for, and does nothing after. *)
(* That it ends is for the runs.                                           *)
(***************************************************************************)
THEOREM NumberReadsOneToken == NumberSpec => Reader!Init /\ [][Reader!Next]_Reader!vars
<1>1. NumberInit => Reader!Init
  BY DEF NumberInit, StaleBuffer, BufferInit, Held, Reader!Init, Reader!Buffer
<1>2. QED
  BY <1>1, NumberInvariant, ReaderStep, PTL DEF NumberSpec
=============================================================================
