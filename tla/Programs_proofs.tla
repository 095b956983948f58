--------------------------- MODULE Programs_proofs ---------------------------
(***************************************************************************)
(* Proofs about what stands around the parser: the sources it reads from,  *)
(* for every input, sign of char and build option, and the fuzzer, that    *)
(* its classification and differential.py's are one, that a session with   *)
(* exit status 0 met no difference and hid little, and that a minimized    *)
(* input shows the finding it was cut from and is minimal; the             *)
(* differential run, that its files agree; and hexadecimal floats, that    *)
(* they are rounded once and to nearest, whatever the format's sizes.      *)
(***************************************************************************)
EXTENDS Sources, FuzzSession, Minimize, DifferentialRun, HexFloat, SequenceTheorems,
        WellFoundedInduction, TLAPS

-----------------------------------------------------------------------------
(* Induction over the naturals. *)

(* The least-number principle. *)
LEMMA Least ==
  ASSUME NEW T, T \subseteq Nat, T # {}
  PROVE  \E m \in T : \A n \in T : m <= n
<1> DEFINE R == OpToRel(<, Nat)
<1>1. PICK m \in T : \A n \in T : ~(<<n, m>> \in R)
  <2>1. IsWellFoundedOn(R, Nat)
    BY NatLessThanWellFounded
  <2> HIDE DEF R
  <2>2. QED
    BY <2>1, WFMin
<1>2. ASSUME NEW n \in T PROVE m <= n
  <2>1. ~(n < m) /\ n \in Nat /\ m \in Nat
    BY <1>1 DEF OpToRel
  <2>2. QED
    BY <2>1
<1>3. QED
  BY <1>2

(* What is true of 0, and of n + 1 whenever it is of n, is true of Nat. *)
LEMMA Counting ==
  ASSUME NEW T, 0 \in T, \A n \in Nat : n \in T => n + 1 \in T
  PROVE  \A n \in Nat : n \in T
<1> DEFINE R == OpToRel(<, Nat)
<1> DEFINE U == Nat \ T
<1>1. SUFFICES ASSUME U # {} PROVE FALSE
  OBVIOUS
<1>2. \E x \in U : \A y \in U : ~(<<y, x>> \in R)
  <2>1. IsWellFoundedOn(R, Nat)
    BY NatLessThanWellFounded
  <2> HIDE DEF R
  <2>2. QED
    BY <1>1, <2>1, WFMin
<1>3. PICK x \in U : \A y \in U : ~(y < x)
  <2>1. PICK x \in U : \A y \in U : ~(<<y, x>> \in R)
    BY <1>2
  <2>2. \A y \in U : <<y, x>> \in R <=> y < x
    BY DEF OpToRel
  <2>3. QED
    BY <2>1, <2>2
<1>4. x \in Nat /\ x # 0
  BY <1>3
<1>5. x - 1 \in Nat /\ x - 1 < x /\ (x - 1) + 1 = x
  BY <1>4
<1>6. QED
  BY <1>3, <1>5

(* The states a machine goes through over N inputs: F[n] is its step at the
   n-th. *)
IsRunOf(f, start, N, F) ==
  f[0] = start /\ \A n \in Nat : n < N => f[n + 1] = F[n + 1][f[n]]

LEMMA RunOf ==
  ASSUME NEW S, NEW start \in S, NEW N \in Nat, NEW F \in [1 .. N -> [S -> S]]
  PROVE  \E f \in [0 .. N -> S] : IsRunOf(f, start, N, F)
<1> DEFINE Runs(f, k) == f[0] = start /\ \A n \in Nat : n < k => f[n + 1] = F[n + 1][f[n]]
<1> DEFINE T == {k \in Nat : k <= N => \E f \in [0 .. k -> S] : Runs(f, k)}
<1>1. 0 \in T
  <2> DEFINE f == [n \in 0 .. 0 |-> start]
  <2>1. f \in [0 .. 0 -> S] /\ Runs(f, 0)
    OBVIOUS
  <2>2. QED
    BY <2>1
<1>2. ASSUME NEW k \in Nat, k \in T PROVE k + 1 \in T
  <2>1. SUFFICES ASSUME k + 1 <= N PROVE \E f \in [0 .. k + 1 -> S] : Runs(f, k + 1)
    OBVIOUS
  <2>2. PICK f \in [0 .. k -> S] : Runs(f, k)
    BY <1>2, <2>1
  <2> DEFINE g == [n \in 0 .. k + 1 |-> IF n = k + 1 THEN F[k + 1][f[k]] ELSE f[n]]
  <2>3. k + 1 \in 1 .. N /\ k \in 0 .. k
    BY <2>1
  <2>4. F[k + 1][f[k]] \in S
    BY <2>3
  <2>5. \A n \in 0 .. k + 1 : n # k + 1 => n \in 0 .. k
    OBVIOUS
  <2>6. g \in [0 .. k + 1 -> S]
    BY <2>4, <2>5
  <2>7. g[k + 1] = F[k + 1][f[k]] /\ \A n \in Nat : n <= k => g[n] = f[n]
    OBVIOUS
  <2> HIDE DEF g
  <2>8. g[0] = start
    BY <2>2, <2>7
  <2>9. ASSUME NEW n \in Nat, n < k + 1 PROVE g[n + 1] = F[n + 1][g[n]]
    <3>1. CASE n = k
      BY <2>7, <3>1
    <3>2. CASE n # k
      <4>1. n < k /\ n <= k /\ n + 1 <= k /\ n + 1 \in Nat
        BY <2>9, <3>2
      <4>2. QED
        BY <2>2, <2>7, <4>1
    <3>3. QED
      BY <3>1, <3>2
  <2>10. QED
    BY <2>6, <2>8, <2>9
<1>3. \A k \in Nat : k \in T
  <2> HIDE DEF T
  <2>1. QED
    BY <1>1, <1>2, Counting
<1>4. PICK f \in [0 .. N -> S] : Runs(f, N)
  BY <1>3
<1>5. QED
  BY <1>4 DEF IsRunOf

-----------------------------------------------------------------------------
(***************************************************************************)
(* Sources.  What a get or a peek gives is the byte under the offset, so   *)
(* the promise comes down to what the last call has given being still      *)
(* there: that is the invariant.                                           *)
(***************************************************************************)
NextByte == IF sourceKind = "buffer" THEN BufferByte ELSE FileByte

SourceInv ==
  /\ sourceKind \in {"buffer", "stream", "user"}
  /\ inputBytes \in Seq({"byte", "ff"})
  /\ position \in Nat /\ file \in Nat
  /\ position = taken
  /\ given = Eof => NextByte = Eof
  /\ lastCall = "peek" => given = NextByte

LEMMA SourceInvInit == SourceInit => SourceInv
BY SourcesAssumption DEF SourceInit, SourceInv, SourcesAssumption, Eof

(* The file ends where its bytes do: a byte of it is never the end. *)
LEMMA FileEnds ==
  ASSUME SourceInv
  PROVE  (FileByte = Eof) <=> ~(file < Len(inputBytes))
<1>1. CASE file < Len(inputBytes)
  <2>1. file + 1 \in 1 .. Len(inputBytes)
    BY <1>1 DEF SourceInv
  <2>2. inputBytes[file + 1] \in {"byte", "ff"}
    BY <2>1 DEF SourceInv
  <2>3. QED
    BY <1>1, <2>2 DEF FileByte, Eof
<1>2. CASE ~(file < Len(inputBytes))
  BY <1>2 DEF FileByte
<1>3. QED
  BY <1>1, <1>2

(* A step of the source gives the byte under the offset, unless it is that
   of another reader. *)
LEMMA StepGives ==
  ASSUME SourceInv, SourcesNext
  PROVE  /\ UNCHANGED <<sourceKind, inputBytes>>
         /\ \/ /\ lastCall' = "get" /\ given' = NextByte
               /\ taken' = IF NextByte = Eof THEN taken ELSE taken + 1
               /\ position' = IF NextByte = Eof THEN position ELSE position + 1
               /\ IF sourceKind = "buffer" \/ NextByte = Eof
                    THEN file' = file ELSE file' = file + 1
            \/ /\ lastCall' = "peek" /\ given' = NextByte
               /\ UNCHANGED <<position, taken, file>>
            \/ /\ lastCall' = "read" /\ sourceKind = "stream"
               /\ given # Eof /\ given' # Eof
               /\ file' = file + 1
               /\ UNCHANGED <<position, taken>>
<1>1. CASE BufferGet
  BY <1>1 DEF BufferGet, Gave, Counts, NextByte
<1>2. CASE FileGet
  BY <1>2 DEF FileGet, Gave, Counts, NextByte
<1>3. CASE BufferPeek \/ UserPeek
  BY <1>3 DEF BufferPeek, UserPeek, Shows, NextByte
<1>4. CASE StreamPeek
  <2>1. file' = file
    BY <1>4 DEF StreamPeek, SourceInv
  <2>2. QED
    BY <1>4, <2>1 DEF StreamPeek, Shows, NextByte
<1>5. CASE Foreign
  <2>1. FileByte # Eof /\ FileByte = inputBytes[file + 1]
    BY <1>5, FileEnds DEF Foreign, FileByte
  <2>2. given # Eof
    BY <1>5, <2>1 DEF Foreign, SourceInv, NextByte
  <2>3. QED
    BY <1>5, <2>1, <2>2 DEF Foreign
<1>6. QED
  BY <1>1, <1>2, <1>3, <1>4, <1>5 DEF SourcesNext

LEMMA SourceInvKept == SourceInv /\ [SourcesNext]_sourceVars => SourceInv'
<1> SUFFICES ASSUME SourceInv, [SourcesNext]_sourceVars PROVE SourceInv'
  OBVIOUS
<1>1. CASE UNCHANGED sourceVars
  BY <1>1 DEF SourceInv, sourceVars, NextByte, BufferByte, FileByte
<1>2. CASE SourcesNext
  <2>1. UNCHANGED <<sourceKind, inputBytes>>
    BY <1>2, StepGives
  <2>2. /\ position' \in Nat /\ file' \in Nat
        /\ position' = taken'
    BY <1>2, StepGives DEF SourceInv
  <2>3. UNCHANGED <<position, file>> => NextByte' = NextByte
    BY <2>1 DEF NextByte, BufferByte, FileByte
  <2>4. given' = Eof => NextByte' = Eof
    BY <1>2, <2>3, StepGives
  <2>5. lastCall' = "peek" => given' = NextByte'
    BY <1>2, <2>3, StepGives
  <2>6. QED
    BY <2>1, <2>2, <2>4, <2>5 DEF SourceInv
<1>3. QED
  BY <1>1, <1>2

(***************************************************************************)
(* Every source keeps its promise to the parser: the end stays the end,    *)
(* peek shows what get will give, position counts what gets gave.          *)
(***************************************************************************)
THEOREM SourcesAreSteady == SourcesSpec => SourceIsSteady
<1>1. SourcesSpec => []SourceInv
  BY SourceInvInit, SourceInvKept, PTL DEF SourcesSpec
<1>2. ASSUME SourceInv, SourceInv', [SourcesNext]_sourceVars
      PROVE  [/\ given = Eof => given' = Eof
              /\ lastCall = "peek" /\ lastCall' = "get" => given' = given
              /\ position' = taken']_sourceVars
  <2>1. CASE UNCHANGED sourceVars
    BY <2>1
  <2>2. CASE SourcesNext
    BY <1>2, <2>2, StepGives DEF SourceInv
  <2>3. QED
    BY <1>2, <2>1, <2>2
<1>3. QED
  BY <1>1, <1>2, PTL DEF SourcesSpec, SourceIsSteady

-----------------------------------------------------------------------------
(* Comparison. *)

(* The three ways a program that starts can end. *)
LEMMA RunCases ==
  ASSUME NEW b \in Behaviour, NEW intime \in BOOLEAN
  PROVE  \/ Run(b, TRUE, intime) = [rc |-> "timeout", out |-> Nothing] /\ (~intime \/ b.end = "hang")
         \/ Run(b, TRUE, intime) = [rc |-> "signal", out |-> b.out] /\ intime
         \/ Run(b, TRUE, intime) = [rc |-> "ok", out |-> b.out] /\ intime
<1>1. b.end \in {"ok", "crash", "hang"}
  BY DEF Behaviour
<1>2. CASE ~intime \/ b.end = "hang"
  <2>1. Run(b, TRUE, intime) = [rc |-> "timeout", out |-> Nothing]
    BY <1>2 DEF Run
  <2> QED BY <2>1, <1>2
<1>3. CASE intime /\ b.end = "crash"
  <2>1. Run(b, TRUE, intime) = [rc |-> "signal", out |-> b.out]
    BY <1>3 DEF Run
  <2> QED BY <2>1, <1>3
<1>4. CASE intime /\ b.end = "ok"
  <2>1. Run(b, TRUE, intime) = [rc |-> "ok", out |-> b.out]
    BY <1>4 DEF Run
  <2> QED BY <2>1, <1>4
<1> QED BY <1>1, <1>2, <1>3, <1>4

(* How a program that starts may end, as a return code. *)
LEMMA RunStarts ==
  ASSUME NEW b \in Behaviour, NEW intime \in BOOLEAN
  PROVE  /\ Run(b, TRUE, intime).rc \in {"ok", "signal", "timeout"}
         /\ ~intime => Run(b, TRUE, intime).rc = "timeout"
<1> DEFINE r == Run(b, TRUE, intime)
<1>1. \/ r = [rc |-> "timeout", out |-> Nothing]
      \/ r = [rc |-> "signal", out |-> b.out] /\ intime
      \/ r = [rc |-> "ok", out |-> b.out] /\ intime
  BY RunCases, Zenon
<1> HIDE DEF r
<1>2. r.rc \in {"ok", "signal", "timeout"} /\ (~intime => r.rc = "timeout")
  BY <1>1
<1> QED BY <1>2 DEF r

LEMMA ExplainedIs ==
  ASSUME NEW san, NEW kind
  PROVE  Explained(san, kind) \in {"upstream_ub", kind}
BY DEF Explained

(* compare and differs agree on results of programs that started. *)
LEMMA Alike ==
  ASSUME NEW c, NEW z, NEW san,
         c.rc \in {"ok", "signal", "timeout"}, z.rc \in {"ok", "signal", "timeout"}
  PROVE  Compare(c, z, san) = Differs(c, z, san)
<1>1. CASE "timeout" \in {c.rc, z.rc}
  <2>1. Compare(c, z, san) = "timeout"
    BY <1>1 DEF Compare
  <2>2. Differs(c, z, san) = "timeout"
    BY <1>1 DEF Differs
  <2> QED BY <2>1, <2>2
<1>2. CASE "timeout" \notin {c.rc, z.rc}
  <2> DEFINE Verdict == IF z.rc = "signal"      THEN "zig_crash"
                        ELSE IF c.rc = "signal" THEN Explained(san, "c_crash")
                        ELSE IF c.out = z.out   THEN "none"
                        ELSE Explained(san, "divergence")
  <2>0. c.rc \in {"ok", "signal"} /\ z.rc \in {"ok", "signal"}
    BY <1>2
  <2>1. Compare(c, z, san) = Verdict
    BY <1>2, <2>0 DEF Compare
  <2>2. Differs(c, z, san) = Verdict
    BY <1>2, <2>0 DEF Differs
  <2> QED BY <2>1, <2>2
<1> QED BY <1>1, <1>2

(* What the sanitizer says tells only the excuse from the kind it excuses. *)
LEMMA SanitizerExcuses ==
  ASSUME NEW c, NEW z, NEW s, NEW t,
         c.rc \in {"ok", "signal", "timeout"}, z.rc \in {"ok", "signal", "timeout"},
         UpstreamIsUb(t) => UpstreamIsUb(s)
  PROVE  \/ Differs(c, z, t) = Differs(c, z, s)
         \/ /\ Differs(c, z, s) = "upstream_ub"
            /\ Differs(c, z, t) \in {"c_crash", "divergence"}
            /\ UpstreamIsUb(s) /\ ~UpstreamIsUb(t)
<1>1. CASE "timeout" \in {c.rc, z.rc}
  <2>1. \A u : Differs(c, z, u) = "timeout"
    BY <1>1 DEF Differs
  <2> QED BY <2>1
<1>2. CASE "timeout" \notin {c.rc, z.rc}
  <2>1. c.rc \in {"ok", "signal"} /\ z.rc \in {"ok", "signal"}
    BY <1>2
  <2>2. \A u : Differs(c, z, u) = IF z.rc = "signal"      THEN "zig_crash"
                                  ELSE IF c.rc = "signal" THEN Explained(u, "c_crash")
                                  ELSE IF c.out = z.out   THEN "none"
                                  ELSE Explained(u, "divergence")
    BY <1>2, <2>1 DEF Differs
  <2>3. \A k : \/ Explained(t, k) = Explained(s, k)
               \/ /\ Explained(s, k) = "upstream_ub" /\ Explained(t, k) = k
                  /\ UpstreamIsUb(s) /\ ~UpstreamIsUb(t)
    BY DEF Explained
  <2> QED BY <2>2, <2>3
<1> QED BY <1>1, <1>2

(* The two scripts on one input whose programs start, by how long they take. *)
LEMMA TimedAlike ==
  ASSUME NEW k, k.c \in Behaviour, k.zig \in Behaviour, NEW takes \in [Timed -> Nat]
  PROVE  \/ DiffKind(k, takes) = FuzzKind(k, takes)
         \/ DiffKind(k, takes) = "timeout" /\ \E p \in Program : BetweenLimits(takes[p])
         \/ /\ FuzzKind(k, takes) = "upstream_ub"
            /\ DiffKind(k, takes) \in {"c_crash", "divergence"}
            /\ BetweenLimits(takes["sanitizer"])
<1> DEFINE fuzz(p) == takes[p] < FuzzTimeout
           diff(p) == takes[p] < DiffTimeout
           c30 == Run(k.c, TRUE, fuzz("c"))
           z30 == Run(k.zig, TRUE, fuzz("zig"))
           s30 == Asked(k.san, fuzz("sanitizer"))
           c20 == Run(k.c, TRUE, diff("c"))
           z20 == Run(k.zig, TRUE, diff("zig"))
           s20 == Asked(k.san, diff("sanitizer"))
<1>1. \A p \in Timed : /\ fuzz(p) \in BOOLEAN /\ diff(p) \in BOOLEAN
                       /\ diff(p) => fuzz(p)
                       /\ fuzz(p) /\ ~diff(p) <=> BetweenLimits(takes[p])
  BY DEF FuzzTimeout, DiffTimeout, BetweenLimits
<1>2. "c" \in Timed /\ "zig" \in Timed /\ "sanitizer" \in Timed
      /\ "c" \in Program /\ "zig" \in Program
  BY DEF Timed, Program
<1>3. FuzzKind(k, takes) = Differs(c30, z30, s30)
  BY DEF FuzzKind
<1>4. DiffKind(k, takes) = Compare(c20, z20, s20)
  BY DEF DiffKind
<1> HIDE DEF fuzz, diff
<1>5. /\ c30.rc \in {"ok", "signal", "timeout"} /\ z30.rc \in {"ok", "signal", "timeout"}
      /\ c20.rc \in {"ok", "signal", "timeout"} /\ z20.rc \in {"ok", "signal", "timeout"}
      /\ ~diff("c") => c20.rc = "timeout"
      /\ ~diff("zig") => z20.rc = "timeout"
  BY <1>1, <1>2, RunStarts
<1>6. CASE \E p \in Program : BetweenLimits(takes[p])
  <2>1. ~diff("c") \/ ~diff("zig")
    BY <1>1, <1>2, <1>6 DEF Program
  <2>2. "timeout" \in {c20.rc, z20.rc}
    BY <1>5, <2>1
  <2> HIDE DEF c20, z20, s20
  <2>3. Compare(c20, z20, s20) = "timeout"
    BY <2>2 DEF Compare
  <2> QED BY <1>4, <1>6, <2>3
<1>7. CASE ~\E p \in Program : BetweenLimits(takes[p])
  <2>1. c20 = c30 /\ z20 = z30
    <3>1. diff("c") = fuzz("c") /\ diff("zig") = fuzz("zig")
      BY <1>1, <1>2, <1>7
    <3> QED BY <3>1
  <2>2. Compare(c20, z20, s20) = Differs(c20, z20, s20)
    <3> HIDE DEF c20, z20, s20
    <3> QED BY <1>5, Alike
  <2>3. UpstreamIsUb(s20) => UpstreamIsUb(s30)
    BY <1>1, <1>2 DEF UpstreamIsUb, Asked
  <2>4. UpstreamIsUb(s30) /\ ~UpstreamIsUb(s20) => BetweenLimits(takes["sanitizer"])
    BY <1>1, <1>2 DEF UpstreamIsUb, Asked
  <2> HIDE DEF c20, z20, s20, c30, z30, s30
  <2>5. \/ Differs(c20, z20, s20) = Differs(c20, z20, s30)
        \/ /\ Differs(c20, z20, s30) = "upstream_ub"
           /\ Differs(c20, z20, s20) \in {"c_crash", "divergence"}
           /\ UpstreamIsUb(s30) /\ ~UpstreamIsUb(s20)
    BY <1>5, <2>3, SanitizerExcuses
  <2> QED BY <1>3, <1>4, <2>1, <2>2, <2>4, <2>5
<1> QED BY <1>6, <1>7

(* The kinds of a finding where both programs start. *)
LEMMA KindsStarted ==
  ASSUME NEW c, NEW z, NEW san,
         c.rc \in {"ok", "signal", "timeout"}, z.rc \in {"ok", "signal", "timeout"}
  PROVE  Differs(c, z, san) \in Bad \union {"none", "upstream_ub"}
<1>1. CASE "timeout" \in {c.rc, z.rc}
  <2>1. Differs(c, z, san) = "timeout"
    BY <1>1 DEF Differs
  <2> QED BY <2>1 DEF Bad
<1>2. CASE "timeout" \notin {c.rc, z.rc}
  <2>0. c.rc \in {"ok", "signal"} /\ z.rc \in {"ok", "signal"}
    BY <1>2
  <2>1. Differs(c, z, san) \in {"zig_crash", "none", Explained(san, "c_crash"), Explained(san, "divergence")}
    BY <1>2, <2>0 DEF Differs
  <2> QED BY <2>1, ExplainedIs DEF Bad
<1> QED BY <1>1, <1>2

(***************************************************************************)
(* Two results of programs that started are classified alike by fuzz.py    *)
(* and by differential.py, whatever the transcripts.                       *)
(***************************************************************************)
THEOREM ClassifiersAgree == ClassifyAlike
<1> SUFFICES ASSUME NEW c \in Result, NEW z \in Result, NEW san \in Sanitizer,
                    "exec_error" \notin {c.rc, z.rc}
             PROVE  Compare(c, z, san) = Differs(c, z, san)
  BY DEF ClassifyAlike
<1>1. c.rc \in {"ok", "signal", "timeout"} /\ z.rc \in {"ok", "signal", "timeout"}
  BY DEF Result
<1> QED BY <1>1, Alike

-----------------------------------------------------------------------------
(* FuzzSession. *)

(* A round has its cases, and the suspects are among them. *)
RoundOK ==
  /\ fuzzPc \in {"pack", "compare", "suspects"} => batch \in [1 .. Batch -> Cases]
  /\ fuzzPc = "suspects" => suspects \subseteq 1 .. Batch

(* What has been met is counted, and a clean exit has counted nothing bad. *)
CountsOK ==
  /\ counts \in [Kind -> Nat]
  /\ (\E k \in met : k \notin {"none", "upstream_ub"}) => Fails
  /\ fuzzExit = "clean" => fuzzPc = "end" /\ ~Fails

FuzzInv == RoundOK /\ CountsOK

LEMMA CasesTyped ==
  ASSUME NEW k \in Cases
  PROVE  k.c \in Behaviour /\ k.zig \in Behaviour /\ k.san \in Sanitizer
BY FuzzAssumption

LEMMA BatchLength ==
  ASSUME batch \in [1 .. Batch -> Cases]
  PROVE  Len(batch) = Batch
BY FuzzAssumption, SMT

LEMMA SuspectsInBatch == Suspects \subseteq 1 .. Len(batch)
BY DEF Suspects

(* A case that differs, run by programs that start, is a finding of a kind
   that fails the session, whether or not a program is slow this time. *)
LEMMA BadIsFound ==
  ASSUME NEW k \in Cases, NEW inC \in BOOLEAN, NEW inZig \in BOOLEAN,
         TrueKind(k) \notin {"none", "upstream_ub"}
  PROVE  Differs(Run(k.c, TRUE, inC), Run(k.zig, TRUE, inZig), k.san) \in Bad
<1> DEFINE c == Run(k.c, TRUE, inC)
           z == Run(k.zig, TRUE, inZig)
<1>0. /\ c.rc \in {"ok", "signal", "timeout"} /\ z.rc \in {"ok", "signal", "timeout"}
      /\ ~inC => c.rc = "timeout"
      /\ ~inZig => z.rc = "timeout"
  BY CasesTyped, RunStarts
<1>1. CASE inC /\ inZig
  <2>1. Differs(c, z, k.san) = TrueKind(k)
    BY <1>1 DEF TrueKind
  <2> HIDE DEF c, z
  <2>2. Differs(c, z, k.san) \in Bad \union {"none", "upstream_ub"}
    BY <1>0, KindsStarted
  <2>3. Differs(c, z, k.san) \in Bad
    BY <2>1, <2>2
  <2> QED BY <2>3 DEF c, z
<1>2. CASE ~(inC /\ inZig)
  <2> HIDE DEF c, z
  <2>1. Differs(c, z, k.san) = "timeout"
    BY <1>0, <1>2 DEF Differs
  <2>2. Differs(c, z, k.san) \in Bad
    BY <2>1 DEF Bad
  <2> QED BY <2>2 DEF c, z
<1> QED BY <1>1, <1>2

(* Counting a kind leaves no count lower, and the kind's above zero. *)
LEMMA CountingCounts ==
  ASSUME NEW counter \in [Kind -> Nat], NEW kind
  PROVE  /\ CountedIn(counter, kind) \in [Kind -> Nat]
         /\ \A k \in Kind : counter[k] > 0 => CountedIn(counter, kind)[k] > 0
         /\ kind \in Kind => CountedIn(counter, kind)[kind] > 0
<1> DEFINE next == IF counter[kind] < Many THEN counter[kind] + 1 ELSE counter[kind]
<1>1. CountedIn(counter, kind) = [counter EXCEPT ![kind] = next]
  BY DEF CountedIn
<1>2. kind \in Kind => next \in Nat /\ next > 0
  BY DEF Many
<1> HIDE DEF next
<1>3. CountedIn(counter, kind) = [k \in Kind |-> IF k = kind THEN next ELSE counter[k]]
  BY <1>1
<1> QED BY <1>2, <1>3

LEMMA BadKinds == Bad \subseteq Kind /\ "none" \notin Bad /\ "upstream_ub" \notin Bad
BY DEF Bad, Kind

LEMMA FuzzInitInv == FuzzInit => FuzzInv
<1> SUFFICES ASSUME FuzzInit PROVE FuzzInv
  OBVIOUS
<1>1. RoundOK
  BY DEF FuzzInit, RoundOK
<1>2. counts \in [Kind -> Nat]
  BY DEF FuzzInit
<1>3. CountsOK
  BY <1>2 DEF FuzzInit, CountsOK
<1> QED BY <1>1, <1>3 DEF FuzzInv

LEMMA ExaminePreserves ==
  ASSUME FuzzInv, Examine
  PROVE  FuzzInv'
<1>1. PICK i \in suspects, slow \in SUBSET Program :
        LET k    == batch[i]
            c    == Run(k.c, "c" \notin broken, "c" \notin slow)
            z    == Run(k.zig, "zig" \notin broken, "zig" \notin slow)
            kind == Differs(c, z, k.san)
        IN  /\ counts' = IF kind = "none" THEN counts ELSE CountedIn(counts, kind)
            /\ met' = IF broken = {} THEN met \union {TrueKind(k)} ELSE met
            /\ suspects' = suspects \ {i}
  BY DEF Examine
<1>2. /\ fuzzPc = "suspects" /\ batch \in [1 .. Batch -> Cases] /\ i \in 1 .. Batch
      /\ UNCHANGED <<fuzzPc, batch, fuzzExit>> /\ counts \in [Kind -> Nat]
  BY <1>1 DEF FuzzInv, RoundOK, CountsOK, Examine
<1> DEFINE k    == batch[i]
           kind == Differs(Run(k.c, "c" \notin broken, "c" \notin slow),
                           Run(k.zig, "zig" \notin broken, "zig" \notin slow), k.san)
<1>3. k \in Cases
  BY <1>2
<1>4. /\ counts' = IF kind = "none" THEN counts ELSE CountedIn(counts, kind)
      /\ met' = IF broken = {} THEN met \union {TrueKind(k)} ELSE met
      /\ suspects' \subseteq suspects
  BY <1>1
<1>5. broken = {} /\ TrueKind(k) \notin {"none", "upstream_ub"} => kind \in Bad
  <2> SUFFICES ASSUME broken = {}, TrueKind(k) \notin {"none", "upstream_ub"} PROVE kind \in Bad
    OBVIOUS
  <2> DEFINE inC == "c" \notin slow
             inZig == "zig" \notin slow
  <2>1. inC \in BOOLEAN /\ inZig \in BOOLEAN
    OBVIOUS
  <2>2. kind = Differs(Run(k.c, TRUE, inC), Run(k.zig, TRUE, inZig), k.san)
    <3>1. ("c" \notin broken) = TRUE /\ ("zig" \notin broken) = TRUE
      OBVIOUS
    <3> QED BY <3>1
  <2> HIDE DEF k, kind, inC, inZig
  <2> QED BY <2>1, <2>2, <1>3, BadIsFound
<1> HIDE DEF k, kind
<1>6. RoundOK'
  BY <1>2, <1>4 DEF FuzzInv, RoundOK
<1>7. counts' \in [Kind -> Nat]
  BY <1>2, <1>4, CountingCounts
<1>8. \A b \in Kind : counts[b] > 0 => counts'[b] > 0
  BY <1>2, <1>4, CountingCounts
<1>9. kind \in Bad => counts'[kind] > 0
  BY <1>2, <1>4, CountingCounts, BadKinds
<1>10. (\E m \in met' : m \notin {"none", "upstream_ub"}) => Fails'
  <2> SUFFICES ASSUME NEW m \in met', m \notin {"none", "upstream_ub"} PROVE Fails'
    OBVIOUS
  <2>1. CASE m \in met
    <3>1. Fails
      BY <2>1 DEF FuzzInv, CountsOK
    <3> QED BY <3>1, <1>8, BadKinds DEF Fails
  <2>2. CASE m \notin met
    <3>1. broken = {} /\ m = TrueKind(k)
      BY <2>2, <1>4
    <3>2. kind \in Bad
      BY <3>1, <1>5
    <3> QED BY <3>2, <1>9 DEF Fails
  <2> QED BY <2>1, <2>2
<1>11. fuzzExit' # "clean"
  BY <1>2 DEF FuzzInv, CountsOK
<1> QED BY <1>6, <1>7, <1>10, <1>11 DEF FuzzInv, CountsOK

LEMMA FuzzStepInv == FuzzInv /\ [FuzzNext]_fuzzVars => FuzzInv'
<1> SUFFICES ASSUME FuzzInv, [FuzzNext]_fuzzVars PROVE FuzzInv'
  OBVIOUS
<1>1. CASE SanityCheck
  <2>1. UNCHANGED <<counts, met>> /\ fuzzPc' \in {"round", "end"} /\ fuzzExit' # "clean"
    BY <1>1 DEF SanityCheck, FuzzInv, CountsOK
  <2> QED BY <2>1 DEF FuzzInv, RoundOK, CountsOK, Fails
<1>2. CASE BeginRound
  BY <1>2 DEF BeginRound, FuzzInv, RoundOK, CountsOK, Fails
<1>3. CASE RunPacks
  <2>1. UNCHANGED <<batch, suspects, counts, fuzzExit, met>> /\ fuzzPc = "pack" /\ fuzzPc' = "compare"
    BY <1>3 DEF RunPacks
  <2> QED BY <2>1 DEF FuzzInv, RoundOK, CountsOK, Fails
<1>4. CASE ComparePacks
  <2>1. /\ UNCHANGED <<batch, counts, fuzzExit, met>> /\ fuzzPc = "compare" /\ fuzzPc' = "suspects"
        /\ suspects' = IF Agreed THEN {} ELSE Suspects
    BY <1>4 DEF ComparePacks
  <2>2. suspects' \subseteq 1 .. Batch
    BY <2>1, SuspectsInBatch, BatchLength DEF FuzzInv, RoundOK
  <2> QED BY <2>1, <2>2 DEF FuzzInv, RoundOK, CountsOK, Fails
<1>5. CASE Examine
  BY <1>5, ExaminePreserves
<1>6. CASE EndRound
  BY <1>6 DEF EndRound, FuzzInv, RoundOK, CountsOK, Fails
<1>7. CASE EndSession
  <2>1. /\ UNCHANGED <<counts, met>> /\ fuzzPc' = "end"
        /\ fuzzExit' = IF Fails THEN "failed" ELSE "clean"
    BY <1>7 DEF EndSession
  <2>2. Fails' = Fails
    BY <2>1 DEF Fails
  <2> QED BY <2>1, <2>2 DEF FuzzInv, RoundOK, CountsOK
<1>8. CASE UNCHANGED fuzzVars
  BY <1>8 DEF fuzzVars, FuzzInv, RoundOK, CountsOK, Fails
<1> QED BY <1>1, <1>2, <1>3, <1>4, <1>5, <1>6, <1>7, <1>8 DEF FuzzNext

THEOREM FuzzInvariant == FuzzSpec => []FuzzInv
BY FuzzInitInv, FuzzStepInv, PTL DEF FuzzSpec

(***************************************************************************)
(* A suspect that fuzz.py would file is judged the same by differential.py *)
(* where it is run again as a fixture, but for what the shorter limit      *)
(* explains, for every batch and however long the programs take.           *)
(***************************************************************************)
THEOREM SuspectsJudgedAlike == FuzzSpec => []HarnessesAgree
<1>1. FuzzInv => HarnessesAgree
  <2> SUFFICES ASSUME FuzzInv, fuzzPc = "suspects",
                      NEW i \in suspects, NEW takes \in [Timed -> Durations],
                      NEW fuzz, fuzz = FuzzKind(batch[i], takes),
                      NEW diff, diff = DiffKind(batch[i], takes)
               PROVE  /\ \/ diff = fuzz
                         \/ diff = "timeout" /\ \E p \in Program : BetweenLimits(takes[p])
                         \/ /\ fuzz = "upstream_ub" /\ diff \in {"c_crash", "divergence"}
                            /\ BetweenLimits(takes["sanitizer"])
                      /\ fuzz \in Bad => diff \in Bad
    BY DEF HarnessesAgree
  <2>1. batch[i].c \in Behaviour /\ batch[i].zig \in Behaviour
    BY CasesTyped DEF FuzzInv, RoundOK
  <2>2. takes \in [Timed -> Nat]
    BY FuzzAssumption DEF FuzzAssumption
  <2>3. "timeout" \in Bad /\ "upstream_ub" \notin Bad
    BY DEF Bad
  <2> QED BY <2>1, <2>2, <2>3, TimedAlike
<1> QED BY <1>1, FuzzInvariant, PTL

(***************************************************************************)
(* Exit status 0 means that no case looked at while both programs started  *)
(* showed a difference that the original's undefined behaviour does not    *)
(* explain: for every batch size and number of rounds.                     *)
(***************************************************************************)
THEOREM CleanSessionsAreClean == FuzzSpec => []CleanSessionIsClean
<1>1. FuzzInv => CleanSessionIsClean
  BY DEF FuzzInv, CountsOK, CleanSessionIsClean
<1> QED BY <1>1, FuzzInvariant, PTL

-----------------------------------------------------------------------------
(* The packs of a fuzz session. *)

(* What a program gave for a pack: while it goes on it writes of each case
   what it writes of it alone, so one that has written of every case has
   gone wrong at the last, if at any. *)
Right(p, r, i) == Sections(r)[i] = batch[i][p].out /\ batch[i][p].end = "ok"

PackOK(p, r) ==
  /\ r.rc \in {"exec_error", "timeout", "ok", "signal"}
  /\ r.rc \in {"exec_error", "timeout"} => Len(Sections(r)) = 0
  /\ r.rc = "ok" => \A i \in 1 .. Batch : Right(p, r, i)
  /\ r.rc = "signal" /\ Len(Sections(r)) = Batch => \A i \in 1 .. Batch : i < Batch => Right(p, r, i)

LEMMA FirstStop ==
  ASSUME batch \in [1 .. Batch -> Cases], NEW p \in Program, Stops(p) # {}
  PROVE  /\ Min(Stops(p)) \in 1 .. Batch
         /\ \A i \in 1 .. Batch : i < Min(Stops(p)) => batch[i][p].end = "ok"
<1>1. Stops(p) \subseteq 1 .. Batch /\ Stops(p) \subseteq Nat
  BY BatchLength DEF Stops
<1>2. \E m \in Stops(p) : \A n \in Stops(p) : m <= n
  BY <1>1, Least
<1>3. /\ Min(Stops(p)) \in Stops(p)
      /\ \A n \in Stops(p) : Min(Stops(p)) <= n
  BY <1>2 DEF Min
<1>4. \A i \in 1 .. Batch : batch[i][p].end # "ok" => i \in Stops(p)
  BY BatchLength DEF Stops
<1>5. QED
  BY <1>1, <1>3, <1>4

LEMMA WrittenIs ==
  ASSUME NEW p, NEW n \in Nat
  PROVE  /\ Len(Written(p, n)) = n /\ \A i \in 1 .. n : Written(p, n)[i] = batch[i][p].out
         /\ Len(Append(Written(p, n), "cut")) = n + 1
         /\ \A i \in 1 .. n : Append(Written(p, n), "cut")[i] = batch[i][p].out
<1> DEFINE w == Written(p, n)
<1>1. w = [i \in 1 .. n |-> batch[i][p].out]
  BY DEF Written
<1>2. w \in Seq({w[i] : i \in 1 .. n}) /\ Len(w) = n
  BY <1>1
<1> HIDE DEF w
<1>3. \E S : w \in Seq(S)
  BY <1>2
<1>4. \A i \in 1 .. n : Append(w, "cut")[i] = w[i] /\ Len(Append(w, "cut")) = n + 1
  BY <1>2, <1>3
<1>5. Len(Append(w, "cut")) = n + 1
  BY <1>2, <1>3
<1>6. QED
  BY <1>1, <1>2, <1>4, <1>5 DEF w

LEMMA PackIsOK ==
  ASSUME batch \in [1 .. Batch -> Cases], NEW p \in Program, NEW slow, NEW r \in PackResults(p, slow)
  PROVE  PackOK(p, r)
<1> DEFINE stop == IF Stops(p) = {} THEN 0 ELSE Min(Stops(p))
<1>1. Len(batch) = Batch /\ Batch \in Nat /\ Batch # 0
  BY BatchLength, FuzzAssumption
<1>2. /\ stop = 0 => Stops(p) = {}
      /\ stop # 0 => stop \in 1 .. Batch /\ \A i \in 1 .. Batch : i < stop => batch[i][p].end = "ok"
  BY FirstStop
<1>3. stop \in Nat /\ stop <= Batch
  BY <1>1, <1>2
<1>4. \/ r = [rc |-> "exec_error", out |-> <<p>>]
      \/ r = [rc |-> "timeout", out |-> <<>>]
      \/ stop = 0 /\ r = [rc |-> "ok", out |-> Written(p, Batch)]
      \/ \E n \in 0 .. stop : r = [rc |-> "signal", out |-> Written(p, n)]
      \/ \E n \in 0 .. stop - 1 : r = [rc |-> "signal", out |-> Append(Written(p, n), "cut")]
  BY <1>1 DEF PackResults
<1> HIDE DEF stop
<1>5. CASE r = [rc |-> "exec_error", out |-> <<p>>] \/ r = [rc |-> "timeout", out |-> <<>>]
  BY <1>5 DEF PackOK, Sections
<1>6. CASE stop = 0 /\ r = [rc |-> "ok", out |-> Written(p, Batch)]
  <2>1. r.rc = "ok" /\ Sections(r) = Written(p, Batch)
    BY <1>6 DEF Sections
  <2>2. \A i \in 1 .. Batch : batch[i][p].end = "ok"
    BY <1>1, <1>2, <1>6 DEF Stops
  <2>3. QED
    BY <1>1, <2>1, <2>2, WrittenIs DEF PackOK, Right
<1>7. CASE \E n \in 0 .. stop : r = [rc |-> "signal", out |-> Written(p, n)]
  <2>1. PICK n \in 0 .. stop : r = [rc |-> "signal", out |-> Written(p, n)]
    BY <1>7
  <2>2. r.rc = "signal" /\ Sections(r) = Written(p, n) /\ n \in Nat
    BY <1>3, <2>1 DEF Sections
  <2>3. n = Batch => stop = Batch
    BY <1>1, <1>3, <2>1
  <2>4. QED
    BY <1>1, <1>2, <2>2, <2>3, WrittenIs DEF PackOK, Right
<1>8. CASE \E n \in 0 .. stop - 1 : r = [rc |-> "signal", out |-> Append(Written(p, n), "cut")]
  <2>1. PICK n \in 0 .. stop - 1 : r = [rc |-> "signal", out |-> Append(Written(p, n), "cut")]
    BY <1>8
  <2>2. r.rc = "signal" /\ Sections(r) = Append(Written(p, n), "cut") /\ n \in Nat
    BY <1>3, <2>1 DEF Sections
  <2>3. n + 1 = Batch => stop = Batch /\ \A i \in 1 .. Batch : i < Batch => i \in 1 .. n
    BY <1>1, <1>3, <2>1, <2>2
  <2>4. QED
    BY <1>1, <1>2, <2>2, <2>3, WrittenIs DEF PackOK, Right
<1>9. QED
  BY <1>4, <1>5, <1>6, <1>7, <1>8

(* Two packs that end well and alike show a case on which the programs agree. *)
LEMMA AgreeingCases ==
  ASSUME NEW k \in Cases, k.c.end = "ok", k.zig.end = "ok", k.c.out = k.zig.out
  PROVE  TrueKind(k) = "none"
<1> DEFINE c == Run(k.c, TRUE, TRUE)
           z == Run(k.zig, TRUE, TRUE)
<1>1. c = [rc |-> "ok", out |-> k.c.out] /\ z = [rc |-> "ok", out |-> k.zig.out]
  BY CasesTyped, RunCases DEF Run
<1> HIDE DEF c, z
<1>2. c.rc = "ok" /\ z.rc = "ok" /\ c.out = z.out
  BY <1>1
<1>3. Differs(c, z, k.san) = "none"
  BY <1>2 DEF Differs
<1>4. QED
  BY <1>3 DEF TrueKind, c, z

PacksInv ==
  /\ fuzzPc \in {"pack", "compare", "suspects"} => batch \in [1 .. Batch -> Cases]
  /\ DOMAIN packs = Program
  /\ fuzzPc = "compare" => \A p \in Program : PackOK(p, packs[p])
  /\ HiddenOnlyByFailure

LEMMA ComparingHidesLittle ==
  ASSUME PacksInv, fuzzPc = "compare",
         NEW looked, looked = IF Agreed THEN {} ELSE Suspects
  PROVE  \A q \in PassedOver(looked) : q.why # "overlooked"
<1> DEFINE c == packs.c
           z == packs.zig
<1>1. batch \in [1 .. Batch -> Cases] /\ Len(batch) = Batch /\ Batch \in Nat /\ Batch # 0
  BY BatchLength, FuzzAssumption DEF PacksInv
<1>2. PackOK("c", c) /\ PackOK("zig", z)
  BY DEF PacksInv, Program
<1>3. SUFFICES ASSUME NEW j \in 1 .. Batch, j \notin looked, TrueKind(batch[j]) # "none"
               PROVE  \/ Agreed /\ packs.c.rc # "ok"
                      \/ ~Agreed /\ j = Len(batch) /\ LeftAlike(j)
                           /\ \E p \in Program : packs[p].rc = "signal"
  BY <1>1 DEF PassedOver
<1> HIDE DEF c, z
<1>4. ~(/\ Right("c", c, j) /\ Right("zig", z, j) /\ Sections(c)[j] = Sections(z)[j])
  BY <1>1, <1>3, AgreeingCases DEF Right
<1>5. CASE Agreed
  <2>1. c = z
    BY <1>5 DEF Agreed, c, z
  <2>2. c.rc # "ok"
    BY <1>2, <1>3, <1>4, <2>1 DEF PackOK
  <2>3. QED
    BY <1>5, <2>2 DEF c
<1>6. CASE ~Agreed
  <2>1. j \notin Suspects
    BY <1>3, <1>6
  <2>2. Len(Sections(c)) = Batch /\ Len(Sections(z)) = Batch /\ Sections(c)[j] = Sections(z)[j]
    BY <1>1, <1>3, <2>1 DEF Suspects, c, z
  <2>3. c.rc \in {"ok", "signal"} /\ z.rc \in {"ok", "signal"}
    BY <1>1, <1>2, <2>2 DEF PackOK
  <2>4. ~(j < Batch) /\ (c.rc = "signal" \/ z.rc = "signal")
    BY <1>2, <1>3, <1>4, <2>2, <2>3 DEF PackOK
  <2>5. j = Batch
    BY <1>1, <1>3, <2>4
  <2>6. QED
    BY <1>1, <1>6, <2>2, <2>4, <2>5 DEF LeftAlike, Program, c, z
<1>7. QED
  BY <1>5, <1>6

LEMMA PacksInvKept == PacksInv /\ [FuzzNext]_fuzzVars => PacksInv'
<1> SUFFICES ASSUME PacksInv, [FuzzNext]_fuzzVars PROVE PacksInv'
  OBVIOUS
<1> USE DEF HiddenOnlyByFailure
<1>1. CASE SanityCheck
  BY <1>1 DEF SanityCheck, PacksInv
<1>2. CASE BeginRound
  BY <1>2 DEF BeginRound, PacksInv
<1>3. CASE RunPacks
  <2>1. /\ fuzzPc = "pack" /\ fuzzPc' = "compare" /\ UNCHANGED <<batch, broken, passed>>
    BY <1>3 DEF RunPacks
  <2>2. PICK slow \in SUBSET Program : \E c \in PackResults("c", slow), z \in PackResults("zig", slow) :
          packs' = [p \in Program |-> IF p = "c" THEN c ELSE z]
    BY <1>3 DEF RunPacks
  <2>3. PICK c \in PackResults("c", slow), z \in PackResults("zig", slow) :
          packs' = [p \in Program |-> IF p = "c" THEN c ELSE z]
    BY <2>2
  <2>4. PackOK("c", c) /\ PackOK("zig", z)
    BY <2>1, <2>3, PackIsOK DEF PacksInv, Program
  <2>5. DOMAIN packs' = Program /\ packs'["c"] = c /\ packs'["zig"] = z
    BY <2>3 DEF Program
  <2>6. \A p \in Program : PackOK(p, packs'[p])
    BY <2>4, <2>5 DEF Program
  <2>7. QED
    BY <2>1, <2>5, <2>6 DEF PacksInv, PackOK, Right
<1>4. CASE ComparePacks
  <2>1. /\ fuzzPc = "compare" /\ fuzzPc' = "suspects" /\ UNCHANGED <<batch, packs>>
        /\ suspects' = IF Agreed THEN {} ELSE Suspects
        /\ passed' = passed \union PassedOver(suspects')
    BY <1>4 DEF ComparePacks
  <2>2. \A q \in PassedOver(suspects') : q.why # "overlooked"
    BY <2>1, ComparingHidesLittle
  <2>3. QED
    BY <2>1, <2>2 DEF PacksInv
<1>5. CASE Examine
  BY <1>5 DEF Examine, PacksInv
<1>6. CASE EndRound
  BY <1>6 DEF EndRound, PacksInv
<1>7. CASE EndSession
  BY <1>7 DEF EndSession, PacksInv
<1>8. CASE UNCHANGED fuzzVars
  BY <1>8 DEF fuzzVars, PacksInv, PackOK, Right
<1>9. QED
  BY <1>1, <1>2, <1>3, <1>4, <1>5, <1>6, <1>7, <1>8 DEF FuzzNext

(***************************************************************************)
(* The packs hide a difference only where both programs failed alike or    *)
(* the last case was one's end, for every batch and number of rounds.      *)
(***************************************************************************)
THEOREM PacksHideLittle == FuzzSpec => []HiddenOnlyByFailure
<1>1. FuzzInit => PacksInv
  BY DEF FuzzInit, PacksInv, HiddenOnlyByFailure
<1>2. PacksInv => HiddenOnlyByFailure
  BY DEF PacksInv
<1>3. QED
  BY <1>1, <1>2, PacksInvKept, PTL DEF FuzzSpec

-----------------------------------------------------------------------------
(* Minimize. *)

(* The best input so far has been run, and shows the kind. *)
Reproduces == best # <<>> /\ best \in DOMAIN answers /\ answers[best] = "kind"

LEMMA MinimizeInitInv == MinimizeInit => Reproduces
<1> SUFFICES ASSUME MinimizeInit PROVE Reproduces
  OBVIOUS
<1>1. Found # <<>>
  <2>1. 1 \in DOMAIN Found
    BY MinimizeAssumption DEF Found
  <2> QED BY <2>1
<1>2. best = Found /\ answers = [s \in {Found} |-> "kind"]
  BY DEF MinimizeInit
<1> HIDE DEF Found
<1> QED BY <1>1, <1>2 DEF Reproduces

(* Asking records the answer. *)
LEMMA AskingRecords ==
  ASSUME NEW s, NEW a, Asks(s, a)
  PROVE  s \in DOMAIN answers' /\ answers'[s] = a
<1>1. CASE s \in DOMAIN answers
  BY <1>1 DEF Asks
<1>2. CASE s \notin DOMAIN answers
  <2>1. answers' = [x \in DOMAIN answers \union {s} |-> IF x = s THEN a ELSE answers[x]]
    BY <1>2 DEF Asks
  <2> QED BY <2>1, <1>2
<1> QED BY <1>1, <1>2

(* An input asked about before keeps its answer. *)
LEMMA AskingForgetsNothing ==
  ASSUME NEW s, NEW a, Asks(s, a), NEW x \in DOMAIN answers
  PROVE  x \in DOMAIN answers' /\ answers'[x] = answers[x]
<1>1. CASE s \in DOMAIN answers
  BY <1>1 DEF Asks
<1>2. CASE s \notin DOMAIN answers
  <2>1. answers' = [y \in DOMAIN answers \union {s} |-> IF y = s THEN a ELSE answers[y]]
    BY <1>2 DEF Asks
  <2> QED BY <2>1, <1>2
<1> QED BY <1>1, <1>2

LEMMA MinimizeStepInv == Reproduces /\ [MinimizeNext]_minimizeVars => Reproduces'
<1> SUFFICES ASSUME Reproduces, [MinimizeNext]_minimizeVars PROVE Reproduces'
  OBVIOUS
<1>1. CASE Try
  <2> DEFINE candidate == Without(best, at, chunk)
  <2>1. PICK a \in Answer :
          /\ candidate # <<>> /\ Asks(candidate, a)
          /\ IF a = "kind" THEN best' = candidate ELSE best' = best
    BY <1>1 DEF Try
  <2> HIDE DEF candidate
  <2>2. CASE a = "kind"
    BY <2>1, <2>2, AskingRecords DEF Reproduces
  <2>3. CASE a # "kind"
    BY <2>1, <2>3, AskingForgetsNothing DEF Reproduces
  <2> QED BY <2>2, <2>3
<1>2. CASE TryNothing
  BY <1>2 DEF TryNothing, Reproduces
<1>3. CASE EndPass
  BY <1>3 DEF EndPass, Reproduces
<1>4. CASE UNCHANGED minimizeVars
  BY <1>4 DEF minimizeVars, Reproduces
<1> QED BY <1>1, <1>2, <1>3, <1>4 DEF MinimizeNext

(***************************************************************************)
(* minimize never returns an input that does not show the finding, for     *)
(* every input length and budget and whatever the programs answer.         *)
(***************************************************************************)
THEOREM ReproducersShowTheKind == MinimizeSpec => []ReproducerShowsKind
<1>1. Reproduces => ReproducerShowsKind
  BY DEF Reproduces, ReproducerShowsKind
<1> QED BY <1>1, MinimizeInitInv, MinimizeStepInv, PTL DEF MinimizeSpec

(* While the chunks are single bytes and the pass has not shrunk the input,
   every byte before the place reached has been left out in vain; a pass
   that ends so is the last. *)
Needed(i) ==
  Len(best) > 1 =>
    LET s == Without(best, i, 1) IN s \in DOMAIN answers /\ answers[s] # "kind"

PassInv ==
  /\ best \in Seq(Nat)
  /\ chunk \in Nat /\ at \in Nat /\ budget \in Nat
  /\ shrunk \in BOOLEAN /\ trimmed \in BOOLEAN
  /\ ~trimmed => chunk >= 1
  /\ ~trimmed /\ ~shrunk /\ chunk = 1 => \A i \in 0 .. Len(best) - 1 : i < at => Needed(i)
  /\ trimmed /\ budget > 0 => \A i \in 0 .. Len(best) - 1 : Needed(i)

LEMMA WithoutIsInput ==
  ASSUME NEW s \in Seq(Nat), NEW i \in Nat, NEW n \in Nat, i < Len(s)
  PROVE  /\ Without(s, i, n) \in Seq(Nat)
         /\ n = 1 => Len(Without(s, i, n)) = Len(s) - 1
<1>1. /\ SubSeq(s, 1, i) \in Seq(Nat) /\ Len(SubSeq(s, 1, i)) = i
  <2>1. 1 \in 1 .. Len(s) + 1 /\ i \in 0 .. Len(s)
    BY LenProperties
  <2>2. QED
    BY <2>1, SubSeqProperties
<1>2. /\ SubSeq(s, i + n + 1, Len(s)) \in Seq(Nat)
      /\ n = 1 => Len(SubSeq(s, i + n + 1, Len(s))) = Len(s) - i - 1
  <2>1. CASE i + n + 1 <= Len(s) + 1
    <3>1. i + n + 1 \in 1 .. Len(s) + 1 /\ Len(s) \in i + n .. Len(s) /\ Len(s) \in Nat
      BY <2>1, LenProperties
    <3>2. QED
      BY <3>1, SubSeqProperties
  <2>2. CASE ~(i + n + 1 <= Len(s) + 1)
    BY <2>2
  <2>3. QED
    BY <2>1, <2>2
<1>3. PICK a \in Seq(Nat), b \in Seq(Nat) :
        /\ Without(s, i, n) = a \o b
        /\ Len(a) = i /\ (n = 1 => Len(b) = Len(s) - i - 1)
  BY <1>1, <1>2 DEF Without
<1>4. a \o b \in Seq(Nat) /\ Len(a \o b) = Len(a) + Len(b)
  BY ConcatProperties
<1>5. QED
  BY <1>3, <1>4, LenProperties

LEMMA NoneBefore == \A n : \A i \in 0 .. n : ~(i < 0)
OBVIOUS

LEMMA PassInvInit == MinimizeInit => PassInv
<1> SUFFICES ASSUME MinimizeInit PROVE PassInv
  OBVIOUS
<1>1. best \in Seq(Nat)
  <2>1. best = [i \in 1 .. Length |-> i] /\ Length \in Nat
    BY MinimizeAssumption DEF MinimizeInit, Found
  <2>2. QED
    BY <2>1
<1>2. chunk \in Nat /\ chunk >= 1
  BY MinimizeAssumption DEF MinimizeInit, Half
<1>3. /\ at = 0 /\ shrunk = FALSE /\ budget \in Nat /\ trimmed = FALSE
  BY MinimizeAssumption DEF MinimizeInit
<1>4. QED
  BY <1>1, <1>2, <1>3, NoneBefore DEF PassInv

LEMMA PassInvKept == PassInv /\ [MinimizeNext]_minimizeVars => PassInv'
<1> SUFFICES ASSUME PassInv, [MinimizeNext]_minimizeVars PROVE PassInv'
  OBVIOUS
<1>1. Len(best) \in Nat
  BY LenProperties DEF PassInv
<1>2. CASE Try
  <2> DEFINE candidate == Without(best, at, chunk)
  <2>1. PICK a \in Answer :
          /\ candidate # <<>> /\ Asks(candidate, a)
          /\ IF a = "kind" THEN best' = candidate /\ shrunk' = TRUE /\ UNCHANGED at
                           ELSE at' = at + chunk /\ UNCHANGED <<best, shrunk>>
    BY <1>2 DEF Try
  <2>2. /\ ~trimmed /\ at < Len(best) /\ budget > 0 /\ budget' = budget - 1
        /\ UNCHANGED <<chunk, trimmed>>
    BY <1>2 DEF Try, InPass
  <2>3. candidate \in Seq(Nat)
    BY <1>1, <2>2, WithoutIsInput DEF PassInv
  <2>4. candidate \in DOMAIN answers' /\ answers'[candidate] = a
    <3> HIDE DEF candidate
    <3>1. QED
      BY <2>1, AskingRecords
  <2>5. ASSUME UNCHANGED best, NEW i \in 0 .. Len(best) - 1, Needed(i) PROVE Needed(i)'
    <3>1. PICK s : s = Without(best, i, 1) /\ s = Without(best, i, 1)'
      BY <2>5 DEF Without
    <3>2. Len(best) > 1 => s \in DOMAIN answers /\ answers[s] # "kind"
      BY <2>5, <3>1 DEF Needed
    <3>3. s \in DOMAIN answers => s \in DOMAIN answers' /\ answers'[s] = answers[s]
      <4> HIDE DEF candidate
      <4>1. QED
        BY <2>1, AskingForgetsNothing
    <3>4. Len(best') > 1 => s \in DOMAIN answers' /\ answers'[s] # "kind"
      BY <2>5, <3>2, <3>3
    <3>5. QED
      BY <3>1, <3>4 DEF Needed
  <2>6. CASE a = "kind"
    BY <2>1, <2>2, <2>3, <2>6 DEF PassInv
  <2>7. CASE a # "kind"
    <3>1. at' = at + chunk /\ UNCHANGED <<best, shrunk>>
      BY <2>1, <2>7
    <3>2. ASSUME ~shrunk, chunk = 1, NEW i \in 0 .. Len(best) - 1, i < at + 1
          PROVE  Needed(i)'
      <4>1. CASE i < at
        BY <2>2, <2>5, <3>1, <3>2, <4>1 DEF PassInv
      <4>2. CASE i = at
        BY <2>4, <2>7, <3>1, <3>2, <4>2 DEF Needed, Without
      <4>3. QED
        BY <3>2, <4>1, <4>2 DEF PassInv
    <3>3. QED
      BY <2>2, <3>1, <3>2 DEF PassInv
  <2>8. QED
    BY <2>6, <2>7
<1>3. CASE TryNothing
  <2>1. /\ ~trimmed /\ at < Len(best) /\ budget > 0 /\ budget' = budget - 1
        /\ Without(best, at, chunk) = <<>> /\ at' = at + chunk
        /\ UNCHANGED <<best, chunk, shrunk, answers, trimmed>>
    BY <1>3 DEF TryNothing, InPass
  <2>2. chunk = 1 => ~(Len(best) > 1)
    <3>1. chunk = 1 => Len(Without(best, at, chunk)) = Len(best) - 1
      BY <2>1, WithoutIsInput DEF PassInv
    <3>2. Len(<<>>) = 0
      OBVIOUS
    <3>3. PICK n \in Nat : n = Len(best)
      BY <1>1
    <3>4. chunk = 1 => n - 1 = 0
      BY <2>1, <3>1, <3>2, <3>3
    <3>5. n - 1 = 0 => ~(n > 1)
      OBVIOUS
    <3>6. QED
      BY <3>3, <3>4, <3>5
  <2>3. chunk = 1 => \A i : Needed(i)'
    BY <2>1, <2>2 DEF Needed
  <2>4. QED
    BY <2>1, <2>3 DEF PassInv
<1>4. CASE EndPass
  <2>1. /\ ~trimmed /\ ~InPass /\ UNCHANGED <<best, budget, answers>>
        /\ chunk' = IF shrunk THEN chunk ELSE chunk \div 2
        /\ IF chunk' >= 1 /\ budget > 0 THEN at' = 0 /\ shrunk' = FALSE /\ UNCHANGED trimmed
                                        ELSE trimmed' = TRUE /\ UNCHANGED <<at, shrunk>>
    BY <1>4 DEF EndPass
  <2>2. chunk' \in Nat /\ (~(chunk' >= 1) => ~shrunk /\ chunk = 1)
    BY <2>1 DEF PassInv
  <2>3. ASSUME ~(chunk' >= 1), budget > 0 PROVE \A i \in 0 .. Len(best) - 1 : Needed(i)
    <3>1. at >= Len(best)
      BY <1>1, <2>1, <2>3 DEF InPass, PassInv
    <3>2. QED
      BY <1>1, <2>1, <2>2, <2>3, <3>1 DEF PassInv
  <2>4. \A i : Needed(i) => Needed(i)'
    BY <2>1 DEF Needed, Without
  <2>5. CASE chunk' >= 1 /\ budget > 0
    <3>1. trimmed' = trimmed /\ at' = 0 /\ shrunk' = FALSE /\ budget' = budget /\ best' = best /\ ~trimmed
      BY <2>1, <2>5
    <3>2. \A i \in 0 .. Len(best') - 1 : ~(i < at')
      BY <3>1, NoneBefore
    <3>3. QED
      BY <2>2, <2>5, <3>1, <3>2 DEF PassInv
  <2>6. CASE ~(chunk' >= 1 /\ budget > 0)
    BY <2>1, <2>2, <2>3, <2>4, <2>6 DEF PassInv
  <2>7. QED
    BY <2>5, <2>6
<1>5. CASE UNCHANGED minimizeVars
  BY <1>5 DEF minimizeVars, PassInv, Needed, Without
<1>6. QED
  BY <1>2, <1>3, <1>4, <1>5 DEF MinimizeNext

(***************************************************************************)
(* minimize stops short of a minimal input only for want of trials, for    *)
(* every input length and whatever the programs answer.                    *)
(***************************************************************************)
THEOREM MinimizedInputsAreMinimal == MinimizeSpec => []MinimizedIsMinimal
<1>1. PassInv => MinimizedIsMinimal
  BY DEF PassInv, Needed, MinimizedIsMinimal
<1>2. QED
  BY <1>1, PassInvInit, PassInvKept, PTL DEF MinimizeSpec

-----------------------------------------------------------------------------
(* DifferentialRun. *)

Pending == queued \union running \union DOMAIN completed
Finding == [job : Nat, kind : Outcomes]

(* Where a run is. *)
RunPlace ==
  /\ runNo \in 0 .. Len(Labels)
  /\ diffPc \in {"idle", "collect", "drain", "unlink", "cases", "summary", "matrix"}
  /\ diffPc \in {"unlink", "cases", "summary", "matrix"} => runNo \in 1 .. Len(Labels)
  /\ diffPc = "collect" => runNo \in 1 .. Len(Labels)
  /\ DOMAIN summaries = LabelSet

(* A job waits, runs, is complete or has been taken, one at a time. *)
JobsApart ==
  /\ Pending \subseteq Nat
  /\ queued \intersect running = {} /\ (queued \union running) \intersect DOMAIN completed = {}
  /\ \A j \in DOMAIN completed : completed[j] \in Outcomes
  /\ diffPc \notin {"collect", "drain"} => Pending = {}

(* The findings are of jobs apart, none of which is still to be taken. *)
FindingsApart ==
  /\ divergences \in Seq(Finding)
  /\ \A i, j \in 1 .. Len(divergences) : i # j => divergences[i].job # divergences[j].job
  /\ diffPc \in {"collect", "drain"} =>
       \A i \in 1 .. Len(divergences) : divergences[i].job \notin Pending
  /\ diffPc \in {"unlink", "cases", "summary", "matrix"} =>
       \A i \in 1 .. Len(divergences) - 1 : divergences[i].job < divergences[i + 1].job

(* The files follow the list. *)
FilesFollow ==
  /\ diffPc = "cases" => cases \subseteq ToSet(divergences)
  /\ diffPc \in {"summary", "matrix"} => cases = ToSet(divergences)
  /\ diffPc = "matrix" => summaries[Label].findings = divergences

DiffInv == RunPlace /\ JobsApart /\ FindingsApart /\ FilesFollow

LEMMA DiffInvInit == DiffInit => DiffInv
<1> SUFFICES ASSUME DiffInit PROVE DiffInv
  OBVIOUS
<1>1. Len(Labels) \in Nat
  BY DifferentialAssumption
<1>2. QED
  BY <1>1 DEF DiffInit, DiffInv, RunPlace, JobsApart, FindingsApart, FilesFollow, Pending

(* A sorted list of findings of jobs apart is in strict order. *)
LEMMA SortedInOrder ==
  ASSUME NEW s \in Seq(Finding), NEW t \in Sorted(s),
         \A i, j \in 1 .. Len(s) : i # j => s[i].job # s[j].job
  PROVE  /\ t \in Seq(Finding)
         /\ \A i, j \in 1 .. Len(t) : i # j => t[i].job # t[j].job
         /\ \A i \in 1 .. Len(t) - 1 : t[i].job < t[i + 1].job
<1> DEFINE n == Len(s)
<1>1. n \in Nat
  BY LenProperties
<1>2. PICK p \in Bijection(1 .. n, 1 .. n) :
        /\ t = [i \in 1 .. n |-> s[p[i]]]
        /\ \A i, j \in 1 .. n : i < j => s[p[i]].job <= s[p[j]].job
  BY DEF Sorted
<1>3. p \in [1 .. n -> 1 .. n] /\ \A i, j \in 1 .. n : p[i] = p[j] => i = j
  BY DEF Bijection, Injection, IsInjective
<1>4. \A i \in 1 .. n : s[i] \in Finding
  BY ElementOfSeq
<1> HIDE DEF n
<1>5. t \in [1 .. n -> Finding] /\ \A i \in 1 .. n : t[i] = s[p[i]]
  BY <1>2, <1>3, <1>4
<1>6. t \in Seq(Finding) /\ Len(t) = n
  BY <1>1, <1>5
<1>7. \A i, j \in 1 .. n : i # j => t[i].job # t[j].job
  BY <1>3, <1>5 DEF n
<1>8. ASSUME NEW i \in 1 .. n - 1 PROVE t[i].job < t[i + 1].job
  <2>1. i \in 1 .. n /\ i + 1 \in 1 .. n /\ i < i + 1 /\ i # i + 1
    BY <1>1
  <2>2. t[i].job \in Nat /\ t[i + 1].job \in Nat
    BY <1>5, <2>1 DEF Finding
  <2>3. t[i].job <= t[i + 1].job /\ t[i].job # t[i + 1].job
    BY <1>2, <1>5, <1>7, <2>1
  <2>4. PICK a \in Nat, b \in Nat : a = t[i].job /\ b = t[i + 1].job
    BY <2>2
  <2>5. a <= b /\ a # b
    BY <2>3, <2>4
  <2>6. QED
    BY <2>4, <2>5
<1>9. QED
  BY <1>6, <1>7, <1>8

LEMMA AppendFinding ==
  ASSUME NEW s \in Seq(Finding), NEW f \in Finding
  PROVE  /\ Append(s, f) \in Seq(Finding) /\ Len(Append(s, f)) = Len(s) + 1 /\ Len(s) \in Nat
         /\ \A i \in 1 .. Len(s) + 1 : Append(s, f)[i] = IF i = Len(s) + 1 THEN f ELSE s[i]
         /\ \A i \in 1 .. Len(s) + 1 : i # Len(s) + 1 => i \in 1 .. Len(s)
BY LenProperties

LEMMA DiffInvKept == DiffInv /\ [DiffNext]_diffVars => DiffInv'
<1> SUFFICES ASSUME DiffInv, [DiffNext]_diffVars PROVE DiffInv'
  OBVIOUS
<1> USE DEF DiffInv, Disk
<1>1. CASE Submit
  <2>1. /\ diffPc = "idle" /\ diffPc' = "collect" /\ runNo' = runNo + 1 /\ runNo' \in 1 .. Len(Labels)
        /\ queued' = JobsOf[Labels[runNo']] /\ divergences' = <<>>
        /\ UNCHANGED <<running, completed, cases, summaries>>
    BY <1>1 DEF Submit, RunPlace, Label
  <2>2. queued' \subseteq Nat /\ running = {} /\ DOMAIN completed = {}
    BY <2>1, DifferentialAssumption DEF DifferentialAssumption, JobsApart, Pending
  <2>3. RunPlace' /\ FilesFollow'
    BY <2>1 DEF RunPlace, FilesFollow
  <2>4. JobsApart' /\ FindingsApart'
    BY <2>1, <2>2 DEF JobsApart, FindingsApart, Pending
  <2>5. QED
    BY <2>3, <2>4
<1>2. CASE Take
  <2>1. PICK j \in queued : queued' = queued \ {j} /\ running' = running \union {j}
    BY <1>2 DEF Take
  <2>2. UNCHANGED <<runNo, diffPc, completed, divergences, cases, summaries>> /\ diffPc \in {"collect", "drain"}
    BY <1>2 DEF Take
  <2>3. Pending' = Pending /\ JobsApart'
    BY <2>1, <2>2 DEF JobsApart, Pending
  <2>4. QED
    BY <2>2, <2>3 DEF RunPlace, FindingsApart, FilesFollow, Label
<1>3. CASE Complete
  <2>1. PICK j \in running, o \in Outcomes :
          /\ running' = running \ {j}
          /\ completed' = [i \in DOMAIN completed \union {j} |-> IF i = j THEN o ELSE completed[i]]
    BY <1>3 DEF Complete
  <2>2. UNCHANGED <<runNo, diffPc, queued, divergences, cases, summaries>>
    BY <1>3 DEF Complete
  <2>3. DOMAIN completed' = DOMAIN completed \union {j} /\ \A i \in DOMAIN completed' : completed'[i] \in Outcomes
    BY <2>1 DEF JobsApart
  <2>4. Pending' = Pending /\ JobsApart'
    BY <2>1, <2>2, <2>3 DEF JobsApart, Pending
  <2>5. QED
    BY <2>2, <2>4 DEF RunPlace, FindingsApart, FilesFollow, Label
<1>4. CASE Collect
  <2>1. PICK j \in DOMAIN completed :
          /\ completed' = [i \in DOMAIN completed \ {j} |-> completed[i]]
          /\ IF completed[j] = "raises"
               THEN diffPc' = "drain" /\ UNCHANGED divergences
               ELSE /\ divergences' = IF completed[j] = "none" THEN divergences
                                      ELSE Append(divergences, [job |-> j, kind |-> completed[j]])
                    /\ UNCHANGED diffPc
    BY <1>4 DEF Collect
  <2>2. diffPc = "collect" /\ diffPc' \in {"collect", "drain"} /\ UNCHANGED <<runNo, queued, running, cases, summaries>>
    BY <1>4, <2>1 DEF Collect
  <2>3. /\ DOMAIN completed' = DOMAIN completed \ {j}
        /\ \A i \in DOMAIN completed' : completed'[i] \in Outcomes
    BY <2>1 DEF JobsApart
  <2>4. JobsApart' /\ Pending' = Pending \ {j} /\ j \in Nat /\ j \in Pending
    BY <2>2, <2>3 DEF JobsApart, Pending
  <2>5. CASE UNCHANGED divergences
    BY <2>2, <2>4, <2>5 DEF RunPlace, FindingsApart, FilesFollow
  <2>6. CASE divergences' = Append(divergences, [job |-> j, kind |-> completed[j]])
    <3> DEFINE f == [job |-> j, kind |-> completed[j]]
    <3>1. f \in Finding /\ f.job = j
      BY <2>4 DEF Finding, JobsApart
    <3>2. divergences' = Append(divergences, f)
      BY <2>6
    <3> HIDE DEF f
    <3>3. /\ divergences' \in Seq(Finding) /\ Len(divergences') = Len(divergences) + 1
          /\ \A i \in 1 .. Len(divergences) + 1 :
               divergences'[i] = IF i = Len(divergences) + 1 THEN f ELSE divergences[i]
          /\ \A i \in 1 .. Len(divergences) + 1 : i # Len(divergences) + 1 => i \in 1 .. Len(divergences)
      BY <3>1, <3>2, AppendFinding DEF FindingsApart
    <3>4. \A i \in 1 .. Len(divergences) : divergences[i].job \in Pending' => FALSE
      BY <2>2, <2>4 DEF FindingsApart
    <3>5. \A i \in 1 .. Len(divergences) : divergences[i].job # j
      BY <2>2, <2>4 DEF FindingsApart
    <3>6. \A i, k \in 1 .. Len(divergences') : i # k => divergences'[i].job # divergences'[k].job
      BY <3>1, <3>3, <3>5 DEF FindingsApart
    <3>7. \A i \in 1 .. Len(divergences') : divergences'[i].job \notin Pending'
      BY <2>4, <3>1, <3>3, <3>4
    <3>8. QED
      BY <2>2, <2>4, <3>3, <3>6, <3>7 DEF RunPlace, FindingsApart, FilesFollow
  <2>7. QED
    BY <2>1, <2>5, <2>6
<1>5. CASE Abort
  <2>1. /\ diffPc' = "idle" /\ DOMAIN completed' = {} /\ queued' = {} /\ running' = {}
        /\ UNCHANGED <<runNo, divergences, cases, summaries>>
    BY <1>5 DEF Abort, Collected
  <2>2. QED
    BY <2>1 DEF RunPlace, JobsApart, FindingsApart, FilesFollow, Pending
<1>6. CASE Sort
  <2>1. /\ diffPc = "collect" /\ diffPc' = "unlink" /\ queued = {} /\ running = {} /\ DOMAIN completed = {}
        /\ divergences' \in Sorted(divergences)
        /\ UNCHANGED <<runNo, queued, running, completed, cases, summaries>>
    BY <1>6 DEF Sort, Collected
  <2>2. /\ divergences' \in Seq(Finding)
        /\ \A i, j \in 1 .. Len(divergences') : i # j => divergences'[i].job # divergences'[j].job
        /\ \A i \in 1 .. Len(divergences') - 1 : divergences'[i].job < divergences'[i + 1].job
    BY <2>1, SortedInOrder DEF FindingsApart
  <2>3. QED
    BY <2>1, <2>2 DEF RunPlace, JobsApart, FindingsApart, FilesFollow, Pending
<1>7. CASE Unlink
  <2>1. /\ diffPc = "unlink" /\ UNCHANGED <<runNo, queued, running, completed, divergences, summaries>>
        /\ \/ cases = {} /\ cases' = {} /\ diffPc' = "cases"
           \/ diffPc' = "unlink"
    BY <1>7 DEF Unlink
  <2>2. QED
    BY <2>1 DEF RunPlace, JobsApart, FindingsApart, FilesFollow, Pending
<1>8. CASE WriteCase
  <2>1. /\ diffPc = "cases" /\ UNCHANGED <<runNo, queued, running, completed, divergences, summaries>>
        /\ \/ ToSet(divergences) \subseteq cases /\ cases' = cases /\ diffPc' = "summary"
           \/ /\ diffPc' = "cases"
              /\ \E i \in 1 .. Len(divergences) :
                   cases' = {f \in cases : f.job # divergences[i].job} \union {divergences[i]}
    BY <1>8 DEF WriteCase
  <2>2. diffPc' = "cases" => cases' \subseteq ToSet(divergences)
    <3>1. \A i \in 1 .. Len(divergences) : divergences[i] \in ToSet(divergences)
      BY LenProperties DEF ToSet, FindingsApart
    <3>2. QED
      BY <2>1, <3>1 DEF FilesFollow
  <2>3. QED
    BY <2>1, <2>2 DEF RunPlace, JobsApart, FindingsApart, FilesFollow, Pending
<1>9. CASE WriteSummary
  <2>1. /\ diffPc = "summary" /\ diffPc' = "matrix"
        /\ summaries' = [summaries EXCEPT ![Label] = Holds(divergences)]
        /\ UNCHANGED <<runNo, queued, running, completed, divergences, cases>>
    BY <1>9 DEF WriteSummary
  <2>2. Label \in LabelSet /\ UNCHANGED Label
    BY <2>1 DEF RunPlace, Label, LabelSet
  <2>3. DOMAIN summaries' = LabelSet /\ summaries'[Label'].findings = divergences
    BY <2>1, <2>2 DEF RunPlace, Holds
  <2>4. QED
    BY <2>1, <2>3 DEF RunPlace, JobsApart, FindingsApart, FilesFollow, Pending
<1>10. CASE WriteMatrix
  <2>1. /\ diffPc = "matrix" /\ diffPc' = "idle"
        /\ UNCHANGED <<runNo, queued, running, completed, divergences, cases, summaries>>
    BY <1>10 DEF WriteMatrix
  <2>2. QED
    BY <2>1 DEF RunPlace, JobsApart, FindingsApart, FilesFollow, Pending
<1>11. CASE Kill
  <2>1. /\ diffPc' = "idle" /\ queued' = {} /\ running' = {} /\ DOMAIN completed' = {}
        /\ divergences' = <<>> /\ UNCHANGED <<runNo, cases, summaries>>
    BY <1>11 DEF Kill
  <2>2. QED
    BY <2>1 DEF RunPlace, JobsApart, FindingsApart, FilesFollow, Pending
<1>12. CASE UNCHANGED diffVars
  BY <1>12 DEF diffVars, RunPlace, JobsApart, FindingsApart, FilesFollow, Pending, Label
<1>13. QED
  BY <1>1, <1>2, <1>3, <1>4, <1>5, <1>6, <1>7, <1>8, <1>9, <1>10, <1>11, <1>12 DEF DiffNext

(***************************************************************************)
(* The files of a differential run agree, whatever order the jobs          *)
(* completed in and whatever was left by runs that were killed, for any    *)
(* labels, jobs and number of threads.                                     *)
(***************************************************************************)
THEOREM DifferentialEvidenceAgrees == DiffSpec => []EvidenceAgrees
<1>1. DiffInv => EvidenceAgrees
  BY DEF DiffInv, FindingsApart, FilesFollow, EvidenceAgrees
<1>2. QED
  BY <1>1, DiffInvInit, DiffInvKept, PTL DEF DiffSpec

-----------------------------------------------------------------------------
(***************************************************************************)
(* Hexadecimal floats.  First the arithmetic: powers of two, which are a   *)
(* recursive function, products, the length of a number.                   *)
(***************************************************************************)
(* The powers up to the N-th. *)
Doubles(f, N) == f \in [0 .. N -> Nat] /\ f[0] = 1 /\ \A n \in Nat : n < N => f[n + 1] = 2 * f[n]

LEMMA DoublesExists == \A N \in Nat : \E f : Doubles(f, N)
<1> SUFFICES ASSUME NEW N \in Nat PROVE \E f : Doubles(f, N)
  OBVIOUS
<1> DEFINE F == [n \in 1 .. N |-> [x \in Nat |-> 2 * x]]
<1>1. F \in [1 .. N -> [Nat -> Nat]]
  OBVIOUS
<1>2. PICK f \in [0 .. N -> Nat] : IsRunOf(f, 1, N, F)
  <2>1. 1 \in Nat
    OBVIOUS
  <2> HIDE DEF F
  <2>2. QED
    BY <1>1, <2>1, RunOf
<1>3. ASSUME NEW n \in Nat, n < N PROVE f[n + 1] = 2 * f[n]
  <2>1. n + 1 \in 1 .. N /\ f[n] \in Nat
    BY <1>3
  <2>2. f[n + 1] = F[n + 1][f[n]]
    BY <1>2, <1>3 DEF IsRunOf
  <2>3. QED
    BY <2>1, <2>2
<1>4. QED
  BY <1>2, <1>3 DEF Doubles, IsRunOf

LEMMA DoublesAgree ==
  ASSUME NEW N \in Nat, NEW f, Doubles(f, N), NEW g, Doubles(g, N + 1)
  PROVE  f[N] = g[N]
<1> DEFINE T == {k \in Nat : k <= N => f[k] = g[k]}
<1>1. 0 \in T
  BY DEF Doubles
<1>2. ASSUME NEW k \in Nat, k \in T PROVE k + 1 \in T
  <2>1. CASE k + 1 <= N
    <3>1. k < N /\ k < N + 1 /\ k <= N
      BY <2>1
    <3>2. f[k + 1] = 2 * f[k] /\ g[k + 1] = 2 * g[k] /\ f[k] = g[k]
      BY <1>2, <3>1 DEF Doubles
    <3>3. QED
      BY <3>2
  <2>2. QED
    BY <2>1
<1>3. \A k \in Nat : k \in T
  <2> HIDE DEF T
  <2>1. QED
    BY <1>1, <1>2, Counting
<1>4. QED
  BY <1>3

LEMMA PowersDouble ==
  /\ Pow2[0] = 1
  /\ \A n \in Nat : Pow2[n + 1] = 2 * Pow2[n]
<1> DEFINE IsPow(w) == w = [n \in Nat |-> IF n = 0 THEN 1 ELSE 2 * w[n - 1]]
<1> DEFINE Row(n) == CHOOSE f : Doubles(f, n)
<1> DEFINE h == [n \in Nat |-> Row(n)[n]]
<1>1. \A n \in Nat : Doubles(Row(n), n)
  BY DoublesExists
<1>2. Row(0)[0] = 1
  BY <1>1 DEF Doubles
<1>3. ASSUME NEW n \in Nat PROVE Row(n + 1)[n + 1] = 2 * Row(n)[n]
  <2>1. n + 1 \in Nat /\ n < n + 1
    OBVIOUS
  <2>2. PICK f : f = Row(n)
    OBVIOUS
  <2>3. PICK g : g = Row(n + 1)
    OBVIOUS
  <2>4. Doubles(f, n) /\ Doubles(g, n + 1)
    BY <1>1, <2>1, <2>2, <2>3
  <2> HIDE DEF Row
  <2>5. f[n] = g[n]
    BY <2>4, DoublesAgree
  <2>6. g[n + 1] = 2 * g[n]
    BY <2>1, <2>4 DEF Doubles
  <2>7. QED
    BY <2>2, <2>3, <2>5, <2>6
<1>4. ASSUME NEW n \in Nat PROVE h[n] = IF n = 0 THEN 1 ELSE 2 * h[n - 1]
  <2> HIDE DEF Row
  <2>1. CASE n = 0
    BY <1>2, <2>1
  <2>2. CASE n # 0
    <3>1. PICK m \in Nat : n = m + 1 /\ n - 1 = m
      <4>1. n - 1 \in Nat /\ n = (n - 1) + 1
        BY <2>2
      <4>2. QED
        BY <4>1
    <3>2. Row(n)[n] = 2 * Row(m)[m]
      BY <1>3, <3>1
    <3>3. h[n] = Row(n)[n] /\ h[m] = Row(m)[m]
      OBVIOUS
    <3>4. QED
      BY <2>2, <3>1, <3>2, <3>3
  <2>3. QED
    BY <2>1, <2>2
<1>5. IsPow(h)
  <2>1. h = [n \in Nat |-> h[n]]
    OBVIOUS
  <2>2. [n \in Nat |-> h[n]] = [n \in Nat |-> IF n = 0 THEN 1 ELSE 2 * h[n - 1]]
    <3> HIDE DEF h
    <3>1. QED
      BY <1>4
  <2> HIDE DEF h
  <2>3. QED
    BY <2>1, <2>2
<1>6. PICK w : w = Pow2 /\ IsPow(w)
  <2>1. Pow2 = CHOOSE w : IsPow(w)
    BY DEF Pow2
  <2> HIDE DEF IsPow, h
  <2>2. QED
    BY <1>5, <2>1
<1>7. w[0] = 1
  BY <1>6
<1>8. ASSUME NEW n \in Nat PROVE w[n + 1] = 2 * w[n]
  <2>1. n + 1 \in Nat /\ n + 1 # 0 /\ (n + 1) - 1 = n
    OBVIOUS
  <2>2. QED
    BY <1>6, <2>1
<1>9. QED
  BY <1>6, <1>7, <1>8

LEMMA Products ==
  /\ \A a \in Nat, b \in Nat : a * b \in Nat
  /\ \A a \in Nat, b \in Nat, c \in Nat : (a * b) * c = a * (b * c)
  /\ \A a \in Nat, b \in Nat : a * b = b * a
OBVIOUS

LEMMA Sums == \A a \in Nat, b \in Nat, c \in Nat : (a + b) * c = a * c + b * c
OBVIOUS

LEMMA ProductsGrow ==
  /\ \A a \in Nat, b \in Nat, c \in Nat : a <= b => a * c <= b * c
  /\ \A a \in Nat, b \in Nat, c \in Nat : a < b /\ 0 < c => a * c < b * c
OBVIOUS

LEMMA Divided ==
  \A a \in Nat, b \in Nat : 0 < b =>
    /\ a \div b \in Nat /\ a % b \in Nat /\ a % b < b
    /\ a = (a \div b) * b + (a % b)
OBVIOUS

LEMMA DividedOnly ==
  \A b \in Nat, q \in Nat, r \in Nat : r < b => (q * b + r) \div b = q /\ (q * b + r) % b = r
OBVIOUS

LEMMA PowersPositive == \A n \in Nat : Pow2[n] \in Nat /\ 0 < Pow2[n]
<1> DEFINE T == {n \in Nat : Pow2[n] \in Nat /\ 0 < Pow2[n]}
<1>1. 0 \in T
  BY PowersDouble
<1>2. ASSUME NEW n \in Nat, n \in T PROVE n + 1 \in T
  BY <1>2, PowersDouble
<1>3. \A n \in Nat : n \in T
  <2> HIDE DEF T
  <2>1. QED
    BY <1>1, <1>2, Counting
<1>4. QED
  BY <1>3

LEMMA PowersAdd == \A a \in Nat, b \in Nat : Pow2[a + b] = Pow2[a] * Pow2[b]
<1> SUFFICES ASSUME NEW a \in Nat PROVE \A b \in Nat : Pow2[a + b] = Pow2[a] * Pow2[b]
  OBVIOUS
<1> DEFINE T == {b \in Nat : Pow2[a + b] = Pow2[a] * Pow2[b]}
<1>1. 0 \in T
  BY PowersDouble, PowersPositive
<1>2. ASSUME NEW b \in Nat, b \in T PROVE b + 1 \in T
  <2>1. Pow2[a + (b + 1)] = 2 * Pow2[a + b]
    <3>1. a + (b + 1) = (a + b) + 1 /\ a + b \in Nat
      OBVIOUS
    <3>2. QED
      BY <3>1, PowersDouble
  <2>2. Pow2[b + 1] = 2 * Pow2[b]
    BY PowersDouble
  <2>3. \A x \in Nat, y \in Nat : 2 * (x * y) = x * (2 * y)
    OBVIOUS
  <2>4. Pow2[a + (b + 1)] = Pow2[a] * Pow2[b + 1]
    BY <1>2, <2>1, <2>2, <2>3, PowersPositive
  <2>5. QED
    BY <2>4
<1>3. \A b \in Nat : b \in T
  <2> HIDE DEF T
  <2>1. QED
    BY <1>1, <1>2, Counting
<1>4. QED
  BY <1>3

LEMMA PowersGrow ==
  /\ \A a \in Nat, b \in Nat : a <= b => Pow2[a] <= Pow2[b]
  /\ \A a \in Nat, b \in Nat : a < b => 2 * Pow2[a] <= Pow2[b] /\ Pow2[a] < Pow2[b]
<1>1. ASSUME NEW a \in Nat, NEW b \in Nat, a <= b PROVE Pow2[a] <= Pow2[b]
  <2>1. PICK c \in Nat : b = a + c
    <3>1. b - a \in Nat /\ b = a + (b - a)
      BY <1>1
    <3>2. QED
      BY <3>1
  <2>2. Pow2[b] = Pow2[a] * Pow2[c]
    BY <2>1, PowersAdd
  <2>3. \A x \in Nat, y \in Nat : 0 < y => x <= x * y
    OBVIOUS
  <2>4. QED
    BY <2>2, <2>3, PowersPositive
<1>2. ASSUME NEW a \in Nat, NEW b \in Nat, a < b
      PROVE  2 * Pow2[a] <= Pow2[b] /\ Pow2[a] < Pow2[b]
  <2>1. a + 1 \in Nat /\ a + 1 <= b
    BY <1>2
  <2>2. Pow2[a + 1] <= Pow2[b] /\ Pow2[a + 1] = 2 * Pow2[a]
    BY <1>1, <2>1, PowersDouble
  <2>3. QED
    BY <2>2, PowersPositive
<1>3. QED
  BY <1>1, <1>2

Longest == AccBits + DigitBits * MaxDigits

LEMMA LongestIs == Longest \in Nat
BY HexAssumption, Products DEF HexAssumption, Longest

LEMMA Lengths ==
  ASSUME NEW n \in Nat, n < Pow2[Longest]
  PROVE  /\ BitLength(n) \in Nat /\ n < Pow2[BitLength(n)]
         /\ n # 0 => BitLength(n) # 0 /\ BitLength(n) - 1 \in Nat /\ Pow2[BitLength(n) - 1] <= n
<1> DEFINE T == {k \in Nat : n < Pow2[k]}
<1>1. PICK k \in T : \A j \in T : k <= j
  <2>1. T \subseteq Nat /\ T # {}
    BY LongestIs
  <2> HIDE DEF T
  <2>2. QED
    BY <2>1, Least
<1>2. k \in 0 .. Longest /\ n < Pow2[k]
  BY <1>1, LongestIs
<1>3. k = 0 \/ Pow2[k - 1] <= n
  <2>1. SUFFICES ASSUME k # 0 PROVE Pow2[k - 1] <= n
    OBVIOUS
  <2>2. k - 1 \in Nat /\ ~(k <= k - 1)
    BY <1>2, <2>1
  <2>3. k - 1 \notin T
    BY <1>1, <2>2
  <2>4. QED
    BY <2>2, <2>3, PowersPositive
<1>4. \E b \in 0 .. Longest : n < Pow2[b] /\ (b = 0 \/ Pow2[b - 1] <= n)
  BY <1>2, <1>3
<1>5. PICK b : b = BitLength(n)
  OBVIOUS
<1>6. b \in 0 .. Longest /\ n < Pow2[b] /\ (b = 0 \/ Pow2[b - 1] <= n)
  BY <1>4, <1>5 DEF BitLength, Longest
<1>7. n # 0 => b # 0
  BY <1>6, PowersDouble
<1>8. QED
  BY <1>5, <1>6, <1>7, LongestIs

LEMMA LengthIs ==
  ASSUME NEW n \in Nat, n < Pow2[Longest], NEW j \in Nat, Pow2[j] <= n, n < Pow2[j + 1]
  PROVE  BitLength(n) = j + 1
<1>1. PICK b \in Nat : b = BitLength(n)
  BY Lengths
<1>2. n # 0
  BY PowersPositive
<1>3. n < Pow2[b] /\ b # 0 /\ b - 1 \in Nat /\ Pow2[b - 1] <= n
  BY <1>1, <1>2, Lengths
<1>4. ~(b <= j)
  BY <1>3, PowersGrow, PowersPositive
<1>5. ~(j + 1 <= b - 1)
  <2>1. j + 1 \in Nat
    OBVIOUS
  <2>2. QED
    BY <1>3, <2>1, PowersGrow, PowersPositive
<1>6. QED
  BY <1>1, <1>4, <1>5

-----------------------------------------------------------------------------
(* The format. *)
LEMMA FormatFacts ==
  /\ MantBits \in Nat /\ MantBits - 1 \in Nat /\ MantBits - 2 \in Nat
  /\ EMax \in Nat /\ EMin \in Int /\ SubnormalUlp \in Int /\ EMax - EMin \in Nat
  /\ EMin = SubnormalUlp + (MantBits - 1) /\ EMin = 1 - EMax
  /\ Infinity = Pow2[MantBits] * Pow2[EMax - EMin]
  /\ EMax + 1 - SubnormalUlp \in Nat
  /\ EMax + 1 - SubnormalUlp = MantBits + (EMax - EMin)
<1>1. /\ MantBits \in Nat /\ MantBits - 1 \in Nat /\ MantBits - 2 \in Nat /\ EMax \in Nat
      /\ EMin \in Int /\ EMin = 1 - EMax /\ EMax # 0
  BY HexAssumption DEF HexAssumption, EMin
<1>2. SubnormalUlp \in Int /\ EMin = SubnormalUlp + (MantBits - 1)
  BY <1>1 DEF SubnormalUlp
<1>3. /\ EMax - EMin \in Nat /\ EMax + 1 - SubnormalUlp \in Nat
      /\ EMax + 1 - SubnormalUlp = MantBits + (EMax - EMin)
  BY <1>1, <1>2
<1>4. Infinity = Pow2[MantBits] * Pow2[EMax - EMin]
  BY <1>1, <1>3, PowersAdd DEF Infinity
<1>5. QED
  BY <1>1, <1>2, <1>3, <1>4

LEMMA Halves ==
  /\ Pow2[MantBits] = 2 * Pow2[MantBits - 1]
  /\ Pow2[MantBits - 1] % 2 = 0
<1>1. \A n \in Nat : n - 1 \in Nat => Pow2[n] = 2 * Pow2[n - 1]
  <2>1. \A n \in Nat : n - 1 \in Nat => (n - 1) + 1 = n
    OBVIOUS
  <2>2. QED
    BY <2>1, PowersDouble
<1>2. Pow2[MantBits] = 2 * Pow2[MantBits - 1]
  BY <1>1, FormatFacts
<1>3. Pow2[MantBits - 1] = 2 * Pow2[MantBits - 2]
  <2>1. (MantBits - 1) - 1 = MantBits - 2
    BY FormatFacts
  <2>2. QED
    BY <1>1, <2>1, FormatFacts
<1>4. \A x \in Nat : (2 * x) % 2 = 0
  OBVIOUS
<1>5. QED
  BY <1>2, <1>3, <1>4, PowersPositive, FormatFacts

(* A float is a significand at a place, or infinity, and none is larger. *)
LEMMA FloatsAre ==
  /\ \A m \in Nat, k \in Nat : m < Pow2[MantBits] /\ k <= EMax - EMin =>
       m * Pow2[k] \in Floats /\ (m % 2 = 0 => m * Pow2[k] \in EvenFloats)
  /\ Infinity \in Floats /\ Infinity \in EvenFloats /\ Infinity \in Nat
  /\ \A y \in Floats : y = Infinity \/ \E m \in Nat, k \in Nat :
       m < Pow2[MantBits] /\ k <= EMax - EMin /\ y = m * Pow2[k]
  /\ \A y \in Floats : y \in Nat /\ y <= Infinity
<1>1. Pow2[MantBits] \in Nat /\ 0 < Pow2[MantBits] /\ EMax - EMin \in Nat
  BY FormatFacts, PowersPositive
<1>2. \A m : m \in Significands <=> m \in Nat /\ m < Pow2[MantBits]
  BY <1>1 DEF Significands
<1>3. \A k : k \in 0 .. EMax - EMin <=> k \in Nat /\ k <= EMax - EMin
  BY <1>1
<1>4. /\ \A m \in Nat, k \in Nat : m < Pow2[MantBits] /\ k <= EMax - EMin =>
           m * Pow2[k] \in Floats /\ (m % 2 = 0 => m * Pow2[k] \in EvenFloats)
      /\ Infinity \in Floats /\ Infinity \in EvenFloats
  BY <1>2, <1>3 DEF Floats, EvenFloats
<1>5. \A y \in Floats : y = Infinity \/ \E m \in Nat, k \in Nat :
        m < Pow2[MantBits] /\ k <= EMax - EMin /\ y = m * Pow2[k]
  BY <1>2, <1>3 DEF Floats
<1>6. Infinity \in Nat
  BY <1>1, FormatFacts, PowersPositive, Products
<1>7. ASSUME NEW m \in Nat, NEW k \in Nat, m < Pow2[MantBits], k <= EMax - EMin
      PROVE  m * Pow2[k] \in Nat /\ m * Pow2[k] <= Infinity
  <2>1. /\ Pow2[k] \in Nat /\ Pow2[EMax - EMin] \in Nat /\ Pow2[k] <= Pow2[EMax - EMin]
    BY <1>1, <1>7, PowersPositive, PowersGrow
  <2>2. m * Pow2[k] <= Pow2[MantBits] * Pow2[k]
    BY <1>1, <1>7, <2>1, ProductsGrow
  <2>3. Pow2[MantBits] * Pow2[k] <= Pow2[MantBits] * Pow2[EMax - EMin]
    BY <1>1, <2>1, ProductsGrow, Products
  <2>4. /\ m * Pow2[k] \in Nat /\ Pow2[MantBits] * Pow2[k] \in Nat
    BY <1>1, <2>1, Products
  <2>5. QED
    BY <1>6, <2>2, <2>3, <2>4, FormatFacts
<1>8. QED
  BY <1>4, <1>5, <1>6, <1>7

-----------------------------------------------------------------------------
(* Which float is nearest. *)
LEMMA Gap ==
  ASSUME NEW q \in Nat, NEW k \in Nat, k <= EMax - EMin, q < Pow2[MantBits],
         k = 0 \/ Pow2[MantBits - 1] <= q
  PROVE  \A y \in Floats : y <= q * Pow2[k] \/ (q + 1) * Pow2[k] <= y
<1> SUFFICES ASSUME NEW y \in Floats PROVE y <= q * Pow2[k] \/ (q + 1) * Pow2[k] <= y
  OBVIOUS
<1>1. PICK u : u = Pow2[k]
  OBVIOUS
<1>2. PICK P : P = Pow2[MantBits]
  OBVIOUS
<1>3. PICK N \in Nat : N = EMax - EMin
  BY FormatFacts
<1>4. u \in Nat /\ 0 < u /\ P \in Nat /\ 0 < P /\ MantBits \in Nat /\ MantBits - 1 \in Nat
  BY <1>1, <1>2, PowersPositive, FormatFacts
<1>5. CASE y = Infinity
  <2>1. (q + 1) * u <= P * u
    BY <1>2, <1>4, ProductsGrow
  <2>2. PICK v \in Nat : v = Pow2[N] /\ u <= v
    BY <1>1, <1>3, PowersPositive, PowersGrow
  <2>3. P * u <= P * v
    BY <1>4, <2>2, ProductsGrow, Products
  <2>4. y = P * v
    BY <1>2, <1>3, <1>5, <2>2, FormatFacts
  <2>5. (q + 1) * u \in Nat /\ P * u \in Nat /\ P * v \in Nat
    BY <1>4, <2>2, Products
  <2>6. QED
    BY <1>1, <2>1, <2>3, <2>4, <2>5
<1>6. CASE \E m \in Nat, j \in Nat : m < Pow2[MantBits] /\ j <= EMax - EMin /\ y = m * Pow2[j]
  <2>1. PICK m \in Nat, j \in Nat : m < P /\ y = m * Pow2[j]
    BY <1>2, <1>6
  <2>2. CASE k <= j
    <3>1. PICK i \in Nat : j = i + k
      <4>1. j - k \in Nat /\ j = (j - k) + k
        BY <2>2
      <4>2. QED
        BY <4>1
    <3>2. PICK n \in Nat : n = m * Pow2[i]
      BY PowersPositive, Products
    <3>3. y = n * u
      <4>1. Pow2[i] \in Nat /\ Pow2[j] = Pow2[i] * u
        BY <1>1, <3>1, PowersAdd, PowersPositive
      <4>2. (m * Pow2[i]) * u = m * (Pow2[i] * u)
        BY <1>4, <4>1, Products
      <4>3. QED
        BY <2>1, <3>2, <4>1, <4>2
    <3>4. n <= q \/ q + 1 <= n
      OBVIOUS
    <3>5. n * u <= q * u \/ (q + 1) * u <= n * u
      BY <1>4, <3>4, ProductsGrow
    <3>6. QED
      BY <1>1, <3>3, <3>5
  <2>3. CASE ~(k <= j)
    <3>1. PICK h : h = Pow2[MantBits - 1]
      OBVIOUS
    <3>2. h \in Nat /\ P = 2 * h /\ h <= q
      BY <1>2, <1>4, <2>3, <3>1, Halves, PowersPositive
    <3>3. PICK w : w = Pow2[j]
      OBVIOUS
    <3>4. w \in Nat /\ 0 < w /\ 2 * w <= u
      BY <1>1, <2>3, <3>3, PowersPositive, PowersGrow
    <3>5. m * w <= P * w
      BY <1>4, <2>1, <3>4, ProductsGrow
    <3>6. P * w = h * (2 * w)
      BY <3>2, <3>4
    <3>7. h * (2 * w) <= h * u /\ h * u <= q * u
      <4>1. \A a \in Nat, b \in Nat, c \in Nat : a <= b => c * a <= c * b
        BY ProductsGrow, Products
      <4>2. 2 * w \in Nat
        BY <3>4
      <4>3. QED
        BY <1>4, <3>2, <3>4, <4>1, <4>2, ProductsGrow
    <3>8. m * w \in Nat /\ P * w \in Nat /\ h * u \in Nat /\ q * u \in Nat
      BY <1>4, <3>2, <3>4, Products
    <3>9. m * w <= q * u
      BY <3>5, <3>6, <3>7, <3>8
    <3>10. QED
      BY <1>1, <2>1, <3>3, <3>9
  <2>4. QED
    BY <2>2, <2>3
<1>7. QED
  BY <1>5, <1>6, FloatsAre

LEMMA Neighbours ==
  ASSUME NEW q \in Nat, NEW k \in Nat, k <= EMax - EMin, q < Pow2[MantBits]
  PROVE  /\ q * Pow2[k] \in Floats /\ (q + 1) * Pow2[k] \in Floats
         /\ q % 2 # 1 => q * Pow2[k] \in EvenFloats
         /\ q % 2 = 1 => (q + 1) * Pow2[k] \in EvenFloats
<1>1. q * Pow2[k] \in Floats /\ (q % 2 # 1 => q * Pow2[k] \in EvenFloats)
  <2>1. q % 2 # 1 => q % 2 = 0
    OBVIOUS
  <2>2. QED
    BY <2>1, FloatsAre
<1>2. CASE q + 1 < Pow2[MantBits]
  <2>1. q + 1 \in Nat /\ (q % 2 = 1 => (q + 1) % 2 = 0)
    OBVIOUS
  <2>2. QED
    BY <1>1, <1>2, <2>1, FloatsAre
<1>3. CASE ~(q + 1 < Pow2[MantBits])
  <2>1. Pow2[MantBits] \in Nat
    BY FormatFacts, PowersPositive
  <2>2. q + 1 = Pow2[MantBits]
    BY <1>3, <2>1
  <2>3. CASE k = EMax - EMin
    <3>1. (q + 1) * Pow2[k] = Infinity
      BY <2>2, <2>3, FormatFacts
    <3>2. QED
      BY <1>1, <3>1, FloatsAre
  <2>4. CASE k # EMax - EMin
    <3>1. k + 1 <= EMax - EMin /\ k + 1 \in Nat
      BY <2>4, FormatFacts
    <3>2. PICK h : h = Pow2[MantBits - 1]
      OBVIOUS
    <3>3. h \in Nat /\ 0 < h /\ Pow2[MantBits] = 2 * h /\ h % 2 = 0
      BY <3>2, Halves, PowersPositive, FormatFacts
    <3>4. h < Pow2[MantBits]
      BY <3>3
    <3>5. h * Pow2[k + 1] \in Floats /\ h * Pow2[k + 1] \in EvenFloats
      BY <3>1, <3>3, <3>4, FloatsAre
    <3>6. (q + 1) * Pow2[k] = h * Pow2[k + 1]
      <4>1. Pow2[k + 1] = 2 * Pow2[k] /\ Pow2[k] \in Nat
        BY PowersDouble, PowersPositive
      <4>2. \A a \in Nat, b \in Nat : (2 * a) * b = a * (2 * b)
        OBVIOUS
      <4>3. QED
        BY <2>2, <3>3, <4>1, <4>2
    <3>7. QED
      BY <1>1, <3>5, <3>6
  <2>5. QED
    BY <2>3, <2>4
<1>4. QED
  BY <1>2, <1>3

LEMMA ApartIs ==
  \A a \in Nat, v \in Nat : /\ a <= v => Apart(a, v) = v - a
                            /\ v <= a => Apart(a, v) = a - v
BY DEF Apart

LEMMA OneMore == \A q \in Nat, u \in Nat : (q + 1) * u = q * u + u
OBVIOUS

LEMMA Trichotomy == \A a \in Int, b \in Int : a < b \/ a = b \/ a > b
OBVIOUS

(* Nothing outside a .. b is nearer to v than a is; than b is. *)
LowWins(a, b, v, q) ==
  \A z \in Nat : z < a \/ b <= z =>
    \/ Apart(a, v) < Apart(z, v)
    \/ Apart(a, v) = Apart(z, v) /\ q % 2 # 1

HighWins(a, b, v, q) ==
  \A z \in Nat : z <= a \/ b < z =>
    \/ Apart(b, v) < Apart(z, v)
    \/ Apart(b, v) = Apart(z, v) /\ q % 2 = 1

LEMMA Nearer ==
  ASSUME NEW a \in Nat, NEW b \in Nat, NEW v \in Nat, NEW U \in Nat, b = a + U, a <= v, v < b,
         NEW q \in Nat
  PROVE  /\ 2 * (v - a) < U \/ (2 * (v - a) = U /\ q % 2 # 1) => LowWins(a, b, v, q)
         /\ 2 * (v - a) > U \/ (2 * (v - a) = U /\ q % 2 = 1) => HighWins(a, b, v, q)
<1>1. Apart(a, v) = v - a /\ Apart(b, v) = b - v
  BY ApartIs
<1>2. ASSUME 2 * (v - a) < U \/ (2 * (v - a) = U /\ q % 2 # 1), NEW z \in Nat, z < a \/ b <= z
      PROVE  \/ Apart(a, v) < Apart(z, v)
             \/ Apart(a, v) = Apart(z, v) /\ q % 2 # 1
  <2>1. CASE z < a
    BY <1>1, <2>1, ApartIs
  <2>2. CASE b <= z
    <3>1. Apart(z, v) = z - v
      BY <2>2 DEF Apart
    <3>2. QED
      BY <1>1, <1>2, <2>2, <3>1
  <2>3. QED
    BY <1>2, <2>1, <2>2
<1>3. ASSUME 2 * (v - a) > U \/ (2 * (v - a) = U /\ q % 2 = 1), NEW z \in Nat, z <= a \/ b < z
      PROVE  \/ Apart(b, v) < Apart(z, v)
             \/ Apart(b, v) = Apart(z, v) /\ q % 2 = 1
  <2>1. CASE z <= a
    <3>1. Apart(z, v) = v - z
      BY <2>1 DEF Apart
    <3>2. QED
      BY <1>1, <1>3, <2>1, <3>1
  <2>2. CASE b < z
    <3>1. Apart(z, v) = z - v
      BY <2>2 DEF Apart
    <3>2. QED
      BY <1>1, <2>2, <3>1
  <2>3. QED
    BY <1>3, <2>1, <2>2
<1>4. QED
  BY <1>2, <1>3 DEF LowWins, HighWins

(* Between two neighbours, the nearer one. *)
LEMMA Between ==
  ASSUME NEW q \in Nat, NEW k \in Nat, k <= EMax - EMin, q < Pow2[MantBits],
         k = 0 \/ Pow2[MantBits - 1] <= q,
         NEW s \in Nat, 0 < s, NEW v \in Nat, NEW U \in Nat, U = Pow2[k] * s,
         q * U <= v, v < (q + 1) * U,
         NEW up \in BOOLEAN,
         up <=> 2 * (v - q * U) > U \/ (2 * (v - q * U) = U /\ q % 2 = 1)
  PROVE  IsNearestTo((IF up THEN q + 1 ELSE q) * Pow2[k], v, s)
<1>1. PICK a \in Nat : a = q * Pow2[k]
  BY PowersPositive, Products
<1>2. PICK b \in Nat : b = (q + 1) * Pow2[k]
  <2>1. q + 1 \in Nat
    OBVIOUS
  <2>2. QED
    BY <2>1, PowersPositive, Products
<1>3. a \in Floats /\ b \in Floats /\ (q % 2 # 1 => a \in EvenFloats) /\ (q % 2 = 1 => b \in EvenFloats)
  BY <1>1, <1>2, Neighbours
<1>4. \A y \in Floats : y \in Nat /\ (y <= a \/ b <= y)
  BY <1>1, <1>2, Gap, FloatsAre
<1>5. PICK as \in Nat : as = a * s /\ as = q * U
  BY <1>1, PowersPositive, Products
<1>6. PICK bs \in Nat : bs = b * s /\ bs = (q + 1) * U
  <2>1. q + 1 \in Nat
    OBVIOUS
  <2>2. QED
    BY <1>2, <2>1, PowersPositive, Products
<1>7. bs = as + U
  <2>1. (q + 1) * U = q * U + U
    BY OneMore
  <2>2. QED
    BY <1>5, <1>6, <2>1
<1>8. as <= v /\ v < bs /\ (up <=> 2 * (v - as) > U \/ (2 * (v - as) = U /\ q % 2 = 1))
  BY <1>5, <1>6
<1>9. ASSUME NEW y \in Floats
       PROVE  \E z \in Nat : z = y * s /\ (y # a => z < as \/ bs <= z)
                              /\ (y # b => z <= as \/ bs < z)
  <2>1. y \in Nat /\ (y <= a \/ b <= y)
    BY <1>4
  <2>2. PICK z \in Nat : z = y * s
    BY <2>1, Products
  <2>3. /\ y < a => z < as
        /\ y <= a => z <= as
        /\ b < y => bs < z
        /\ b <= y => bs <= z
    BY <1>5, <1>6, <2>1, <2>2, ProductsGrow
  <2>4. (y # a => y < a \/ b <= y) /\ (y # b => y <= a \/ b < y)
    BY <2>1
  <2>5. QED
    BY <2>2, <2>3, <2>4
<1>11. (~up => LowWins(as, bs, v, q)) /\ (up => HighWins(as, bs, v, q))
  <2>1. /\ ~up => 2 * (v - as) < U \/ (2 * (v - as) = U /\ q % 2 # 1)
        /\ up => 2 * (v - as) > U \/ (2 * (v - as) = U /\ q % 2 = 1)
    <3>1. PICK w \in Int : w = 2 * (v - as)
      BY <1>5
    <3>2. w < U \/ w = U \/ w > U
      <4>1. U \in Int
        OBVIOUS
      <4>2. QED
        BY <3>1, <4>1, Trichotomy, Zenon
    <3>3. up <=> w > U \/ (w = U /\ q % 2 = 1)
      BY <1>8, <3>1, Zenon
    <3>4. (~up => w < U \/ (w = U /\ q % 2 # 1)) /\ (up => w > U \/ (w = U /\ q % 2 = 1))
      BY <3>2, <3>3, Zenon
    <3>5. QED
      BY <3>1, <3>4, Zenon
  <2>2. /\ 2 * (v - as) < U \/ (2 * (v - as) = U /\ q % 2 # 1) => LowWins(as, bs, v, q)
        /\ 2 * (v - as) > U \/ (2 * (v - as) = U /\ q % 2 = 1) => HighWins(as, bs, v, q)
    BY <1>5, <1>6, <1>7, <1>8, Nearer, Zenon
  <2>3. QED
    BY <2>1, <2>2, Zenon
<1>12. CASE ~up
  <2>1. ASSUME NEW y \in Floats, y # a
        PROVE  \/ Apart(as, v) < Apart(y * s, v)
               \/ Apart(as, v) = Apart(y * s, v) /\ a \in EvenFloats
    <3>1. PICK z \in Nat : z = y * s /\ (z < as \/ bs <= z)
      BY <1>9, <2>1
    <3>2. QED
      BY <1>3, <1>11, <1>12, <3>1 DEF LowWins
  <2>2. IsNearestTo(a, v, s)
    BY <1>3, <1>5, <2>1 DEF IsNearestTo
  <2>3. QED
    BY <1>1, <1>12, <2>2
<1>13. CASE up
  <2>1. ASSUME NEW y \in Floats, y # b
        PROVE  \/ Apart(bs, v) < Apart(y * s, v)
               \/ Apart(bs, v) = Apart(y * s, v) /\ b \in EvenFloats
    <3>1. PICK z \in Nat : z = y * s /\ (z <= as \/ bs < z)
      BY <1>9, <2>1
    <3>2. QED
      BY <1>3, <1>11, <1>13, <3>1 DEF HighWins
  <2>2. IsNearestTo(b, v, s)
    BY <1>3, <1>6, <2>1 DEF IsNearestTo
  <2>3. QED
    BY <1>2, <1>13, <2>2
<1>14. QED
  BY <1>12, <1>13

(* At or beyond infinity, infinity; below half the smallest, zero. *)
LEMMA TooLarge ==
  ASSUME NEW s \in Nat, 0 < s, NEW v \in Nat, Infinity * s <= v
  PROVE  IsNearestTo(Infinity, v, s)
<1>1. PICK i \in Nat : i = Infinity * s
  BY FloatsAre, Products
<1>2. ASSUME NEW y \in Floats, y # Infinity PROVE Apart(i, v) < Apart(y * s, v)
  <2>1. y \in Nat /\ y < Infinity /\ Infinity \in Nat
    BY <1>2, FloatsAre
  <2>2. PICK z \in Nat : z = y * s /\ z < i
    BY <1>1, <2>1, Products, ProductsGrow
  <2>3. Apart(i, v) = v - i /\ Apart(z, v) = v - z
    <3>1. i <= v /\ z <= v
      BY <1>1, <2>2
    <3>2. QED
      BY <3>1, ApartIs
  <2>4. QED
    BY <2>2, <2>3
<1>3. QED
  BY <1>1, <1>2, FloatsAre DEF IsNearestTo

LEMMA TooSmall ==
  ASSUME NEW s \in Nat, 0 < s, NEW v \in Nat, 2 * v < s
  PROVE  IsNearestTo(0, v, s)
<1>1. 0 \in Floats
  <2>1. 0 * Pow2[0] \in Floats
    BY FloatsAre, FormatFacts, PowersPositive
  <2>2. QED
    BY <2>1, PowersDouble
<1>2. ASSUME NEW y \in Floats, y # 0 PROVE Apart(0 * s, v) < Apart(y * s, v)
  <2>1. y \in Nat /\ 1 <= y
    BY <1>2, FloatsAre
  <2>2. PICK z \in Nat : z = y * s /\ s <= z
    <3>1. 1 * s <= y * s
      BY <2>1, ProductsGrow
    <3>2. QED
      BY <2>1, <3>1, Products
  <2>3. Apart(0 * s, v) = v /\ Apart(z, v) = z - v
    BY <2>2, ApartIs
  <2>4. QED
    BY <2>2, <2>3
<1>3. QED
  BY <1>1, <1>2 DEF IsNearestTo

-----------------------------------------------------------------------------
(***************************************************************************)
(* While the digits are read the accumulator holds what of the number is   *)
(* above the digits dropped, sticky whether those are all zero, and once   *)
(* one is dropped the accumulator is full: the rounding still sees more    *)
(* bits than a significand has.                                            *)
(***************************************************************************)
Cut == Pow2[DigitBits * droppedDigits]

HexInv ==
  /\ mantissa \in Nat /\ sticky \in BOOLEAN /\ droppedDigits \in Nat /\ fracDigits \in Nat
  /\ exact \in Nat /\ exactDigits \in Nat /\ exactDigits <= MaxDigits
  /\ mantissa < Pow2[AccBits] /\ exact < Pow2[DigitBits * exactDigits]
  /\ mantissa * Cut <= exact /\ exact < (mantissa + 1) * Cut
  /\ sticky <=> exact # mantissa * Cut
  /\ droppedDigits > 0 => mantissa > Room
  /\ fracDigits <= exactDigits /\ droppedDigits <= exactDigits

LEMMA DigitFacts ==
  /\ DigitBits \in Nat /\ 0 < DigitBits /\ AccBits \in Nat /\ AccBits - DigitBits \in Nat
  /\ MantBits + 1 <= AccBits - DigitBits /\ MaxDigits \in Nat
  /\ Base \in Nat /\ 0 < Base
  /\ \A n \in Nat : DigitBits * n \in Nat /\ Pow2[DigitBits * (n + 1)] = Pow2[DigitBits * n] * Base
<1>1. /\ DigitBits \in Nat /\ 0 < DigitBits /\ AccBits \in Nat /\ AccBits - DigitBits \in Nat
      /\ MantBits + 1 <= AccBits - DigitBits /\ MaxDigits \in Nat
  BY HexAssumption DEF HexAssumption
<1>2. Base \in Nat /\ 0 < Base
  BY <1>1, PowersPositive DEF Base
<1>3. ASSUME NEW n \in Nat
      PROVE  DigitBits * n \in Nat /\ Pow2[DigitBits * (n + 1)] = Pow2[DigitBits * n] * Base
  <2>1. DigitBits * n \in Nat
    BY <1>1, Products
  <2>2. DigitBits * (n + 1) = DigitBits * n + DigitBits
    BY <1>1
  <2>3. QED
    BY <1>1, <2>1, <2>2, PowersAdd DEF Base
<1>4. QED
  BY <1>1, <1>2, <1>3

LEMMA RoomIs == /\ Room = Pow2[AccBits - DigitBits] - 1
                /\ Pow2[AccBits] = Pow2[AccBits - DigitBits] * Base
<1>1. PICK h \in Nat : h = Pow2[AccBits - DigitBits] /\ 0 < h
  BY DigitFacts, PowersPositive
<1>2. Pow2[AccBits] = h * Base
  <2>1. AccBits = (AccBits - DigitBits) + DigitBits
    BY DigitFacts
  <2>2. QED
    BY <1>1, <2>1, DigitFacts, PowersAdd DEF Base
<1>3. PICK g \in Nat : h = g + 1
  <2>1. h - 1 \in Nat /\ h = (h - 1) + 1
    BY <1>1
  <2>2. QED
    BY <2>1
<1>4. PICK B \in Nat : B = Base /\ 0 < B
  BY DigitFacts
<1>5. (h * B - 1 - (B - 1)) = g * B
  <2>1. h * B = g * B + B
    BY <1>3, OneMore
  <2>2. g * B \in Nat
    BY Products
  <2>3. QED
    BY <1>4, <2>1, <2>2
<1>6. (g * B) \div B = g
  <2>1. g * B + 0 = g * B
    BY Products
  <2>2. (g * B + 0) \div B = g
    BY <1>4, DividedOnly
  <2>3. QED
    BY <2>1, <2>2
<1>7. QED
  BY <1>1, <1>2, <1>3, <1>4, <1>5, <1>6 DEF Room

(* What m * S <= x < (m + 1) * S becomes when the digit d is put after x. *)
IsAppended(m, S, x, B, d) ==
  /\ x * B + d \in Nat
  /\ m * (S * B) <= x * B + d /\ x * B + d < (m + 1) * (S * B)
  /\ x * B + d = m * (S * B) <=> x = m * S /\ d = 0

LEMMA Appended ==
  ASSUME NEW m \in Nat, NEW S \in Nat, NEW x \in Nat, NEW B \in Nat, NEW d \in Nat,
         d < B, 0 < S, m * S <= x, x < (m + 1) * S
  PROVE  IsAppended(m, S, x, B, d)
<1>1. PICK a \in Nat : a = m * S
  BY Products
<1>2. PICK b \in Nat : b = (m + 1) * S
  BY <1>1, OneMore
<1>3. PICK aB \in Nat : aB = a * B /\ aB = m * (S * B)
  BY <1>1, Products
<1>4. PICK bB \in Nat : bB = b * B /\ bB = (m + 1) * (S * B)
  <2>1. m + 1 \in Nat
    OBVIOUS
  <2>2. QED
    BY <1>2, <2>1, Products
<1>5. PICK xB \in Nat : xB = x * B
  BY Products
<1>6. aB <= xB /\ (a < x => aB + B <= xB)
  <2>1. aB <= xB
    BY <1>1, <1>3, <1>5, ProductsGrow
  <2>2. ASSUME a < x PROVE aB + B <= xB
    <3>1. a + 1 \in Nat /\ a + 1 <= x
      BY <2>2
    <3>2. (a + 1) * B <= xB
      BY <1>5, <3>1, ProductsGrow
    <3>3. (a + 1) * B = a * B + B
      BY OneMore
    <3>4. QED
      BY <1>3, <3>2, <3>3
  <2>3. QED
    BY <2>1, <2>2
<1>7. xB + B <= bB
  <2>1. x + 1 \in Nat /\ x + 1 <= b
    BY <1>2
  <2>2. (x + 1) * B <= bB
    BY <1>4, <2>1, ProductsGrow
  <2>3. (x + 1) * B = x * B + B
    BY OneMore
  <2>4. QED
    BY <1>5, <2>2, <2>3
<1>8. a <= x /\ d < B /\ aB \in Nat
  BY <1>1
<1>9. xB + d \in Nat /\ aB <= xB + d /\ xB + d < bB /\ (xB + d = aB <=> x = a /\ d = 0)
  <2>1. CASE a < x
    BY <1>6, <1>7, <1>8, <2>1
  <2>2. CASE a = x
    <3>1. aB = xB
      BY <1>3, <1>5, <2>2
    <3>2. QED
      BY <1>7, <1>8, <2>2, <3>1
  <2>3. QED
    BY <1>8, <2>1, <2>2
<1>10. QED
  BY <1>1, <1>3, <1>4, <1>5, <1>9 DEF IsAppended

LEMMA HexInvHolds == HexSpec => []HexInv
<1>1. HexInit => HexInv
  <2> SUFFICES ASSUME HexInit PROVE HexInv
    OBVIOUS
  <2>1. DigitBits * 0 = 0
    BY DigitFacts
  <2>2. /\ mantissa = 0 /\ sticky = FALSE /\ fracDigits = 0 /\ droppedDigits = 0 /\ exact = 0
        /\ exactDigits = 0
    BY DEF HexInit
  <2>3. Cut = 1 /\ Pow2[DigitBits * exactDigits] = 1
    BY <2>1, <2>2, PowersDouble DEF Cut
  <2>4. mantissa < Pow2[AccBits] /\ exact < Pow2[DigitBits * exactDigits]
    BY <2>2, <2>3, DigitFacts, PowersPositive
  <2>5. mantissa * Cut = 0 /\ (mantissa + 1) * Cut = 1
    BY <2>2, <2>3
  <2>6. /\ mantissa * Cut <= exact /\ exact < (mantissa + 1) * Cut
        /\ sticky <=> exact # mantissa * Cut
    BY <2>2, <2>5
  <2>7. /\ mantissa \in Nat /\ sticky \in BOOLEAN /\ droppedDigits \in Nat /\ fracDigits \in Nat
        /\ exact \in Nat /\ exactDigits \in Nat /\ exactDigits <= MaxDigits
        /\ ~(droppedDigits > 0)
        /\ fracDigits <= exactDigits /\ droppedDigits <= exactDigits
    <3>1. sticky \in BOOLEAN
      BY <2>2, Zenon
    <3>2. MaxDigits \in Nat
      BY DigitFacts
    <3>3. QED
      BY <2>2, <3>1, <3>2
  <2>8. QED
    BY <2>4, <2>6, <2>7, Zenon DEF HexInv
<1>2. HexInv /\ [HexNext]_hexVars => HexInv'
  <2> SUFFICES ASSUME HexInv, [HexNext]_hexVars PROVE HexInv'
    OBVIOUS
  <2>1. CASE ReadDigit
    <3>1. PICK d \in 0 .. Base - 1 :
            /\ exact' = exact * Base + d
            /\ IF mantissa <= Room
                 THEN mantissa' = mantissa * Base + d /\ UNCHANGED <<sticky, droppedDigits>>
                 ELSE /\ sticky' = (sticky \/ d # 0)
                      /\ droppedDigits' = droppedDigits + 1
                      /\ UNCHANGED mantissa
      BY <2>1 DEF ReadDigit
    <3>2. /\ exactDigits < MaxDigits /\ exactDigits' = exactDigits + 1
          /\ fracDigits' = IF seenPoint THEN fracDigits + 1 ELSE fracDigits
      BY <2>1 DEF ReadDigit
    <3>3. d \in Nat /\ d < Base
      BY <3>1, DigitFacts
    <3>4. PICK m \in Nat, x \in Nat, S \in Nat : m = mantissa /\ x = exact /\ S = Cut /\ 0 < S
      BY DigitFacts, PowersPositive DEF HexInv, Cut
    <3>5. /\ m < Pow2[AccBits] /\ x < Pow2[DigitBits * exactDigits] /\ m * S <= x
          /\ x < (m + 1) * S /\ (sticky <=> x # m * S) /\ (droppedDigits > 0 => m > Room)
          /\ sticky \in BOOLEAN /\ droppedDigits \in Nat /\ fracDigits \in Nat
          /\ exactDigits \in Nat /\ fracDigits <= exactDigits /\ droppedDigits <= exactDigits
      BY <3>4 DEF HexInv
    <3>6. /\ x * Base + d \in Nat
          /\ m * (S * Base) <= x * Base + d /\ x * Base + d < (m + 1) * (S * Base)
          /\ x * Base + d = m * (S * Base) <=> x = m * S /\ d = 0
      <4>1. Base \in Nat
        BY DigitFacts
      <4>2. d < Base /\ 0 < S /\ m * S <= x /\ x < (m + 1) * S
        BY <3>3, <3>4, <3>5, Zenon
      <4>3. d \in Nat /\ m \in Nat /\ x \in Nat /\ S \in Nat
        BY <3>3
      <4>4. IsAppended(m, S, x, Base, d)
        BY <4>1, <4>2, <4>3, Appended, Zenon
      <4>5. QED
        BY <4>4, Zenon DEF IsAppended
    <3>7. exact' \in Nat /\ exact' < Pow2[DigitBits * exactDigits']
      <4>1. Pow2[DigitBits * exactDigits'] = Pow2[DigitBits * exactDigits] * Base
        BY <3>2, <3>5, DigitFacts
      <4>2. PICK E \in Nat : E = Pow2[DigitBits * exactDigits] /\ x + 1 <= E
        BY <3>4, <3>5, DigitFacts, PowersPositive
      <4>3. (x + 1) * Base <= E * Base /\ x + 1 \in Nat
        BY <3>4, <4>2, DigitFacts, ProductsGrow
      <4>4. (x + 1) * Base = x * Base + Base
        BY <3>4, DigitFacts, OneMore
      <4>5. x * Base \in Nat /\ E * Base \in Nat /\ Base \in Nat
        BY <3>4, <4>2, DigitFacts, Products
      <4>6. x * Base + d < E * Base
        BY <3>3, <4>3, <4>4, <4>5
      <4>7. QED
        BY <3>1, <3>4, <3>6, <4>1, <4>2, <4>6
    <3>8. /\ mantissa' \in Nat /\ sticky' \in BOOLEAN /\ droppedDigits' \in Nat
          /\ mantissa' < Pow2[AccBits]
          /\ mantissa' * Cut' <= exact' /\ exact' < (mantissa' + 1) * Cut'
          /\ sticky' <=> exact' # mantissa' * Cut'
          /\ droppedDigits' > 0 => mantissa' > Room
      <4>1. CASE mantissa <= Room
        <5>1. mantissa' = m * Base + d /\ sticky' = sticky /\ droppedDigits' = droppedDigits
          BY <3>1, <3>4, <4>1
        <5>2. Room \in Int
          BY RoomIs, DigitFacts, PowersPositive
        <5>3. droppedDigits = 0
          BY <3>4, <3>5, <4>1, <5>2
        <5>4. Cut = 1 /\ Cut' = 1
          <6>1. DigitBits * 0 = 0
            BY DigitFacts
          <6>2. QED
            BY <5>1, <5>3, <6>1, PowersDouble DEF Cut
        <5>5. x = m /\ ~sticky
          BY <3>4, <3>5, <5>4
        <5>6. exact' = mantissa' /\ mantissa' \in Nat
          BY <3>1, <3>4, <3>6, <5>1, <5>5
        <5>7. mantissa' < Pow2[AccBits]
          <6>1. PICK h \in Nat : h = Pow2[AccBits - DigitBits] /\ m + 1 <= h
            BY <3>4, <4>1, RoomIs, DigitFacts, PowersPositive
          <6>2. (m + 1) * Base <= h * Base
            BY <3>4, <6>1, DigitFacts, ProductsGrow
          <6>3. (m + 1) * Base = m * Base + Base
            BY <3>4, DigitFacts, OneMore
          <6>4. Pow2[AccBits] = h * Base
            BY <6>1, RoomIs
          <6>5. m * Base \in Nat /\ h * Base \in Nat /\ Base \in Nat
            BY <3>4, <6>1, DigitFacts, Products
          <6>6. m * Base + d < h * Base
            BY <3>3, <6>2, <6>3, <6>5
          <6>7. QED
            BY <5>1, <6>4, <6>6
        <5>8. QED
          BY <3>5, <5>1, <5>3, <5>4, <5>5, <5>6, <5>7
      <4>2. CASE ~(mantissa <= Room)
        <5>1. /\ sticky' = (sticky \/ d # 0) /\ droppedDigits' = droppedDigits + 1
              /\ mantissa' = m
          BY <3>1, <3>4, <4>2
        <5>2. Room \in Int
          BY RoomIs, DigitFacts, PowersPositive
        <5>3. mantissa' > Room
          BY <3>4, <4>2, <5>1, <5>2
        <5>4. Cut' = S * Base
          BY <3>4, <3>5, <5>1, DigitFacts DEF Cut
        <5>5. exact' = x * Base + d
          BY <3>1, <3>4
        <5>6. sticky' <=> exact' # mantissa' * Cut'
          BY <3>5, <3>6, <5>1, <5>4, <5>5, Zenon
        <5>7. mantissa' * Cut' <= exact' /\ exact' < (mantissa' + 1) * Cut'
          BY <3>6, <5>1, <5>4, <5>5, Zenon
        <5>8. /\ mantissa' \in Nat /\ sticky' \in BOOLEAN /\ droppedDigits' \in Nat
              /\ mantissa' < Pow2[AccBits]
          BY <3>4, <3>5, <5>1
        <5>9. QED
          BY <5>3, <5>6, <5>7, <5>8, Zenon
      <4>3. QED
        BY <4>1, <4>2
    <3>9. /\ fracDigits' \in Nat /\ exactDigits' \in Nat /\ exactDigits' <= MaxDigits
          /\ fracDigits' <= exactDigits' /\ droppedDigits' <= exactDigits'
      BY <3>1, <3>2, <3>5, DigitFacts
    <3>10. QED
      BY <3>7, <3>8, <3>9, Zenon DEF HexInv
  <2>2. CASE ReadPoint
    BY <2>2 DEF ReadPoint, HexInv, Cut
  <2>3. CASE UNCHANGED hexVars
    BY <2>3 DEF hexVars, HexInv, Cut
  <2>4. QED
    BY <2>1, <2>2, <2>3 DEF HexNext
<1>3. QED
  BY <1>1, <1>2, PTL DEF HexSpec

-----------------------------------------------------------------------------
(* The nearest float to V * 2^e, computed. *)
Top(V, e) == BitLength(V) - 1 + e

HalfEven(q, lost, ulp) ==
  IF 2 * lost > ulp \/ (2 * lost = ulp /\ q % 2 = 1) THEN q + 1 ELSE q

Rounded(V, e) ==
  LET shift    == OracleUlp(Top(V, e)) - e
      quotient == IF shift <= 0 THEN V * Pow2[-shift] ELSE V \div Pow2[shift]
      rest     == IF shift <= 0 THEN 0 ELSE V % Pow2[shift]
      half     == IF shift <= 0 THEN 1 ELSE Pow2[shift - 1]
  IN  IF rest > half \/ (rest = half /\ quotient % 2 = 1) THEN quotient + 1 ELSE quotient

FloatOf(V, e) ==
  IF V = 0 \/ Top(V, e) < SubnormalUlp - 1 THEN 0
  ELSE IF Top(V, e) > EMax                 THEN Infinity
  ELSE Rounded(V, e) * Pow2[OracleUlp(Top(V, e)) - SubnormalUlp]

LEMMA NearestBetween ==
  ASSUME NEW q \in Nat, NEW k \in Nat, k <= EMax - EMin, q < Pow2[MantBits],
         k = 0 \/ Pow2[MantBits - 1] <= q,
         NEW s \in Nat, 0 < s, NEW v \in Nat, NEW U \in Nat, U = Pow2[k] * s,
         q * U <= v, v < (q + 1) * U
  PROVE  IsNearestTo(HalfEven(q, v - q * U, U) * Pow2[k], v, s)
<1>1. PICK up \in BOOLEAN : up <=> 2 * (v - q * U) > U \/ (2 * (v - q * U) = U /\ q % 2 = 1)
  <2>1. (2 * (v - q * U) > U \/ (2 * (v - q * U) = U /\ q % 2 = 1)) \in BOOLEAN
    BY Zenon
  <2>2. QED
    BY <2>1, Zenon
<1>2. CASE up
  <2>1. IsNearestTo((IF TRUE THEN q + 1 ELSE q) * Pow2[k], v, s)
    <3>1. 2 * (v - q * U) > U \/ (2 * (v - q * U) = U /\ q % 2 = 1)
      BY <1>1, <1>2, Zenon
    <3>2. TRUE \in BOOLEAN /\ (TRUE <=> 2 * (v - q * U) > U \/ (2 * (v - q * U) = U /\ q % 2 = 1))
      BY <3>1, Zenon
    <3>3. QED
      BY <3>2, Between, Zenon
  <2>2. HalfEven(q, v - q * U, U) = q + 1
    BY <1>1, <1>2, Zenon DEF HalfEven
  <2>3. QED
    BY <2>1, <2>2, Zenon
<1>3. CASE ~up
  <2>1. IsNearestTo((IF FALSE THEN q + 1 ELSE q) * Pow2[k], v, s)
    <3>1. ~(2 * (v - q * U) > U \/ (2 * (v - q * U) = U /\ q % 2 = 1))
      BY <1>1, <1>3, Zenon
    <3>2. FALSE \in BOOLEAN /\ (FALSE <=> 2 * (v - q * U) > U \/ (2 * (v - q * U) = U /\ q % 2 = 1))
      BY <3>1, Zenon
    <3>3. QED
      BY <3>2, Between, Zenon
  <2>2. HalfEven(q, v - q * U, U) = q
    BY <1>1, <1>3, Zenon DEF HalfEven
  <2>3. QED
    BY <2>1, <2>2, Zenon
<1>4. QED
  BY <1>2, <1>3

(* In units w times smaller. *)
Scaled(q, lost, ulp, w) == HalfEven(q, lost * w, ulp * w) = HalfEven(q, lost, ulp)

LEMMA HalfEvenScales ==
  ASSUME NEW q \in Nat, NEW lost \in Nat, NEW ulp \in Nat, NEW w \in Nat, 0 < w
  PROVE  Scaled(q, lost, ulp, w)
<1>1. PICK a \in Nat : a = 2 * lost
  OBVIOUS
<1>2. 2 * (lost * w) = a * w
  BY <1>1, Products
<1>3. a > ulp <=> a * w > ulp * w
  <2>1. PICK x \in Nat, y \in Nat : x = a * w /\ y = ulp * w
    BY Products
  <2>2. (a <= ulp => x <= y) /\ (ulp < a => y < x)
    BY <2>1, ProductsGrow
  <2>3. QED
    BY <2>1, <2>2
<1>4. a = ulp <=> a * w = ulp * w
  <2>1. PICK x \in Nat, y \in Nat : x = a * w /\ y = ulp * w
    BY Products
  <2>2. (a < ulp => x < y) /\ (ulp < a => y < x) /\ (a = ulp => x = y)
    BY <2>1, ProductsGrow
  <2>3. QED
    BY <2>1, <2>2
<1>5. HalfEven(q, lost, ulp) = IF a > ulp \/ (a = ulp /\ q % 2 = 1) THEN q + 1 ELSE q
  BY <1>1, Zenon DEF HalfEven
<1>6. HalfEven(q, lost * w, ulp * w)
        = IF a * w > ulp * w \/ (a * w = ulp * w /\ q % 2 = 1) THEN q + 1 ELSE q
  BY <1>2, Zenon DEF HalfEven
<1>7. CASE a > ulp \/ (a = ulp /\ q % 2 = 1)
  <2>1. a * w > ulp * w \/ (a * w = ulp * w /\ q % 2 = 1)
    BY <1>3, <1>4, <1>7, Zenon
  <2>2. QED
    BY <1>5, <1>6, <1>7, <2>1, Zenon DEF Scaled
<1>8. CASE ~(a > ulp \/ (a = ulp /\ q % 2 = 1))
  <2>1. ~(a * w > ulp * w \/ (a * w = ulp * w /\ q % 2 = 1))
    BY <1>3, <1>4, <1>8, Zenon
  <2>2. QED
    BY <1>5, <1>6, <1>8, <2>1, Zenon DEF Scaled
<1>9. QED
  BY <1>7, <1>8, Zenon DEF Scaled

LEMMA TopIs ==
  ASSUME NEW V \in Nat, V # 0, V < Pow2[Longest], NEW e \in Int
  PROVE  \E b \in Nat : /\ b = BitLength(V) /\ b - 1 \in Nat /\ Top(V, e) = b - 1 + e
                        /\ Pow2[b - 1] <= V /\ V < Pow2[b] /\ Top(V, e) \in Int
BY Lengths DEF Top

LEMMA UlpIs ==
  ASSUME NEW t \in Int
  PROVE  /\ OracleUlp(t) \in Int /\ SubnormalUlp <= OracleUlp(t)
         /\ OracleUlp(t) - SubnormalUlp \in Nat
         /\ t - (MantBits - 1) <= OracleUlp(t)
         /\ OracleUlp(t) = SubnormalUlp \/ OracleUlp(t) = t - (MantBits - 1)
         /\ t <= EMax => OracleUlp(t) - SubnormalUlp <= EMax - EMin
BY FormatFacts DEF OracleUlp, Larger

(* q is the whole part of V * 2^e in ulps, which the rounding goes up from. *)
IsRounding(V, e, u, q) ==
  /\ q \in Nat /\ q < Pow2[MantBits] /\ (u = SubnormalUlp \/ Pow2[MantBits - 1] <= q)
  /\ \A c \in Int : c <= e /\ c <= u =>
       /\ q * Pow2[u - c] <= V * Pow2[e - c] /\ V * Pow2[e - c] < (q + 1) * Pow2[u - c]
       /\ Rounded(V, e) = HalfEven(q, V * Pow2[e - c] - q * Pow2[u - c], Pow2[u - c])

LEMMA RoundedUnshifted ==
  ASSUME NEW V \in Nat, V # 0, V < Pow2[Longest], NEW e \in Int,
         NEW u \in Int, u = OracleUlp(Top(V, e)), u <= e
  PROVE  Rounded(V, e) = V * Pow2[e - u] /\ IsRounding(V, e, u, V * Pow2[e - u])
<1>1. PICK b \in Nat : /\ b = BitLength(V) /\ b - 1 \in Nat /\ Top(V, e) = b - 1 + e
                       /\ Pow2[b - 1] <= V /\ V < Pow2[b] /\ Top(V, e) \in Int
  BY TopIs
<1>2. u >= b - 1 + e - (MantBits - 1) /\ (u = SubnormalUlp \/ u = b - 1 + e - (MantBits - 1))
  <2>1. PICK t \in Int : t = Top(V, e) /\ t = b - 1 + e
    BY <1>1
  <2>2. t - (MantBits - 1) <= u /\ (u = SubnormalUlp \/ u = t - (MantBits - 1))
    BY <2>1, UlpIs, Zenon
  <2>3. MantBits \in Nat
    BY FormatFacts
  <2>4. QED
    BY <2>1, <2>2, <2>3
<1>3. e - u \in Nat /\ -(u - e) = e - u /\ u - e <= 0
  OBVIOUS
<1>4. PICK p \in Nat : p = Pow2[e - u] /\ 0 < p
  BY <1>3, PowersPositive
<1>5. PICK q \in Nat : q = V * p
  BY <1>4, Products
<1>6. Rounded(V, e) = q
  BY <1>3, <1>4, <1>5 DEF Rounded
<1>7. q < Pow2[MantBits]
  <2>1. PICK B \in Nat : B = Pow2[b] /\ V < B
    BY <1>1, PowersPositive
  <2>2. q < B * p
    BY <1>4, <1>5, <2>1, ProductsGrow
  <2>3. B * p = Pow2[b + (e - u)] /\ b + (e - u) \in Nat
    <3>1. b \in Nat /\ b + (e - u) \in Nat
      BY <1>1, <1>3
    <3>2. Pow2[b + (e - u)] = Pow2[b] * Pow2[e - u]
      BY <1>3, <3>1, PowersAdd, Zenon
    <3>3. QED
      BY <1>4, <2>1, <3>1, <3>2
  <2>4. b + (e - u) <= MantBits
    BY <1>2, FormatFacts
  <2>5. Pow2[b + (e - u)] <= Pow2[MantBits]
    BY <2>3, <2>4, PowersGrow, FormatFacts
  <2>6. Pow2[b + (e - u)] \in Nat /\ Pow2[MantBits] \in Nat
    BY <2>3, PowersPositive, FormatFacts
  <2>7. QED
    BY <2>2, <2>3, <2>5, <2>6
<1>8. u = SubnormalUlp \/ Pow2[MantBits - 1] <= q
  <2>1. SUFFICES ASSUME u = b - 1 + e - (MantBits - 1) PROVE Pow2[MantBits - 1] <= q
    BY <1>2
  <2>2. PICK B \in Nat : B = Pow2[b - 1] /\ B <= V
    BY <1>1, PowersPositive
  <2>3. B * p <= q
    BY <1>4, <1>5, <2>2, ProductsGrow
  <2>4. B * p = Pow2[(b - 1) + (e - u)]
    BY <1>1, <1>3, <1>4, <2>2, PowersAdd
  <2>5. (b - 1) + (e - u) = MantBits - 1
    BY <2>1, FormatFacts
  <2>6. QED
    BY <2>3, <2>4, <2>5
<1>9. ASSUME NEW c \in Int, c <= e, c <= u
      PROVE  /\ q * Pow2[u - c] <= V * Pow2[e - c] /\ V * Pow2[e - c] < (q + 1) * Pow2[u - c]
             /\ q = HalfEven(q, V * Pow2[e - c] - q * Pow2[u - c], Pow2[u - c])
  <2>1. u - c \in Nat /\ e - c = (e - u) + (u - c)
    BY <1>9
  <2>2. PICK w \in Nat : w = Pow2[u - c] /\ 0 < w
    BY <2>1, PowersPositive
  <2>3. Pow2[e - c] = p * w
    <3>1. Pow2[(e - u) + (u - c)] = Pow2[e - u] * Pow2[u - c]
      BY <1>3, <2>1, PowersAdd, Zenon
    <3>2. Pow2[e - c] = Pow2[e - u] * Pow2[u - c]
      BY <2>1, <3>1, Zenon
    <3>3. QED
      BY <1>4, <2>2, <3>2, Zenon
  <2>4. V * Pow2[e - c] = q * w
    BY <1>4, <1>5, <2>2, <2>3, Products
  <2>5. PICK z \in Nat : z = q * w /\ (q + 1) * w = z + w
    BY <2>2, OneMore, Products
  <2>6. z - z = 0 /\ z <= z /\ z < z + w
    BY <2>2
  <2>7. HalfEven(q, 0, w) = q
    BY <2>2 DEF HalfEven
  <2>8. QED
    BY <2>2, <2>4, <2>5, <2>6, <2>7, Zenon
<1>10. IsRounding(V, e, u, q)
  BY <1>6, <1>7, <1>8, <1>9, Zenon DEF IsRounding
<1>11. QED
  BY <1>4, <1>5, <1>6, <1>10

LEMMA RoundedShifted ==
  ASSUME NEW V \in Nat, V # 0, V < Pow2[Longest], NEW e \in Int,
         NEW u \in Int, u = OracleUlp(Top(V, e)), e < u
  PROVE  /\ Rounded(V, e) = HalfEven(V \div Pow2[u - e], V % Pow2[u - e], Pow2[u - e])
         /\ IsRounding(V, e, u, V \div Pow2[u - e])
<1>1. PICK b \in Nat : /\ b = BitLength(V) /\ b - 1 \in Nat /\ Top(V, e) = b - 1 + e
                       /\ Pow2[b - 1] <= V /\ V < Pow2[b] /\ Top(V, e) \in Int
  BY TopIs
<1>2. u >= b - 1 + e - (MantBits - 1) /\ (u = SubnormalUlp \/ u = b - 1 + e - (MantBits - 1))
  <2>1. PICK t \in Int : t = Top(V, e) /\ t = b - 1 + e
    BY <1>1
  <2>2. t - (MantBits - 1) <= u /\ (u = SubnormalUlp \/ u = t - (MantBits - 1))
    BY <2>1, UlpIs, Zenon
  <2>3. MantBits \in Nat
    BY FormatFacts
  <2>4. QED
    BY <2>1, <2>2, <2>3
<1>3. PICK sh \in Nat : sh = u - e /\ sh - 1 \in Nat /\ ~(sh <= 0) /\ (sh - 1) + 1 = sh
  <2>1. u - e \in Nat /\ u - e - 1 \in Nat /\ ~(u - e <= 0) /\ (u - e - 1) + 1 = u - e
    OBVIOUS
  <2>2. QED
    BY <2>1
<1>4. PICK half \in Nat : half = Pow2[sh - 1]
  BY <1>3, PowersPositive
<1>5. PICK p \in Nat : p = Pow2[sh] /\ 0 < p /\ p = 2 * half
  BY <1>3, <1>4, PowersPositive, PowersDouble
<1>6. PICK q \in Nat, rest \in Nat : q = V \div p /\ rest = V % p
  BY <1>5, Divided
<1>7. PICK qp \in Nat : qp = q * p
  BY Products
<1>8. V = qp + rest /\ rest < p
  BY <1>5, <1>6, <1>7, Divided
<1>9. Rounded(V, e) = IF rest > half \/ (rest = half /\ q % 2 = 1) THEN q + 1 ELSE q
  BY <1>3, <1>4, <1>5, <1>6, Zenon DEF Rounded
<1>10. Rounded(V, e) = HalfEven(q, rest, p)
  <2>1. (rest > half <=> 2 * rest > p) /\ (rest = half <=> 2 * rest = p)
    BY <1>5
  <2>2. QED
    BY <1>9, <2>1, Zenon DEF HalfEven
<1>11. qp <= V /\ V < qp + p /\ (q + 1) * p = qp + p
  BY <1>7, <1>8, OneMore
<1>12. q < Pow2[MantBits]
  <2>1. PICK B \in Nat, N \in Nat : B = Pow2[b] /\ N = Pow2[MantBits]
    BY PowersPositive, FormatFacts
  <2>2. b <= MantBits + sh /\ MantBits + sh \in Nat
    BY <1>2, <1>3, FormatFacts
  <2>3. B <= Pow2[MantBits + sh]
    BY <2>1, <2>2, PowersGrow
  <2>4. Pow2[MantBits + sh] = N * p
    <3>1. MantBits \in Nat
      BY FormatFacts
    <3>2. Pow2[MantBits + sh] = Pow2[MantBits] * Pow2[sh]
      BY <1>3, <3>1, PowersAdd, Zenon
    <3>3. QED
      BY <1>5, <2>1, <3>2
  <2>5. N <= q => N * p <= qp
    BY <1>5, <1>7, <2>1, ProductsGrow
  <2>6. V < B
    BY <1>1, <2>1
  <2>7. PICK z \in Nat : z = N * p
    BY <2>1, <1>5, Products
  <2>8. ~(N <= q)
    BY <1>11, <2>1, <2>3, <2>4, <2>5, <2>6, <2>7
  <2>9. QED
    BY <2>1, <2>8
<1>13. u = SubnormalUlp \/ Pow2[MantBits - 1] <= q
  <2>1. SUFFICES ASSUME u = b - 1 + e - (MantBits - 1) PROVE Pow2[MantBits - 1] <= q
    BY <1>2
  <2>2. PICK N \in Nat : N = Pow2[MantBits - 1]
    BY PowersPositive, FormatFacts
  <2>3. b - 1 = (MantBits - 1) + sh
    BY <1>3, <2>1, FormatFacts
  <2>4. Pow2[b - 1] = N * p
    <3>1. MantBits - 1 \in Nat
      BY FormatFacts
    <3>2. Pow2[(MantBits - 1) + sh] = Pow2[MantBits - 1] * Pow2[sh]
      BY <1>3, <3>1, PowersAdd, Zenon
    <3>3. QED
      BY <1>5, <2>2, <2>3, <3>2
  <2>5. PICK z \in Nat : z = N * p /\ z <= V
    BY <1>1, <1>5, <2>2, <2>4, Products
  <2>6. q + 1 <= N => (q + 1) * p <= z
    <3>1. q + 1 \in Nat
      OBVIOUS
    <3>2. QED
      BY <1>5, <2>2, <2>5, <3>1, ProductsGrow
  <2>7. ~(q + 1 <= N)
    BY <1>5, <1>11, <2>5, <2>6
  <2>8. QED
    BY <2>2, <2>7
<1>14. ASSUME NEW c \in Int, c <= e, c <= u
       PROVE  /\ q * Pow2[u - c] <= V * Pow2[e - c] /\ V * Pow2[e - c] < (q + 1) * Pow2[u - c]
              /\ Rounded(V, e) = HalfEven(q, V * Pow2[e - c] - q * Pow2[u - c], Pow2[u - c])
  <2>1. e - c \in Nat /\ u - c = sh + (e - c)
    BY <1>3, <1>14
  <2>2. PICK w \in Nat : w = Pow2[e - c] /\ 0 < w
    BY <2>1, PowersPositive
  <2>3. Pow2[u - c] = p * w
    <3>1. Pow2[sh + (e - c)] = Pow2[sh] * Pow2[e - c]
      BY <1>3, <2>1, PowersAdd, Zenon
    <3>2. QED
      BY <1>5, <2>1, <2>2, <3>1
  <2>4. q * (p * w) = qp * w
    BY <1>5, <1>7, <2>2, Products
  <2>5. (q + 1) * (p * w) = (qp + p) * w
    <3>1. q + 1 \in Nat
      OBVIOUS
    <3>2. ((q + 1) * p) * w = (q + 1) * (p * w)
      BY <1>5, <2>2, <3>1, Products
    <3>3. QED
      BY <1>11, <3>2
  <2>6. V * w = qp * w + rest * w
    BY <1>7, <1>8, <2>2, Sums
  <2>7. PICK x \in Nat, y \in Nat, z \in Nat : x = qp * w /\ y = rest * w /\ z = (qp + p) * w
    <3>1. qp + p \in Nat
      BY <1>5, <1>7
    <3>2. QED
      BY <1>6, <1>7, <2>2, <3>1, Products
  <2>8. V * w < z
    <3>1. qp + p \in Nat
      BY <1>5, <1>7
    <3>2. QED
      BY <1>11, <2>2, <2>7, <3>1, ProductsGrow
  <2>9. x <= x + y /\ (x + y) - x = y
    BY <2>7
  <2>10. HalfEven(q, rest * w, p * w) = HalfEven(q, rest, p)
    <3>1. q \in Nat /\ rest \in Nat /\ p \in Nat /\ w \in Nat /\ 0 < w
      BY <1>5, <1>6, <2>2, Zenon
    <3>2. Scaled(q, rest, p, w)
      BY <3>1, HalfEvenScales, Zenon
    <3>3. QED
      BY <3>2, Zenon DEF Scaled
  <2>11. QED
    BY <1>10, <2>2, <2>3, <2>4, <2>5, <2>6, <2>7, <2>8, <2>9, <2>10, Zenon
<1>15. IsRounding(V, e, u, q)
  BY <1>12, <1>13, <1>14, Zenon DEF IsRounding
<1>16. QED
  BY <1>3, <1>5, <1>6, <1>10, <1>15

LEMMA FloatOfIsNearest ==
  ASSUME NEW V \in Nat, V < Pow2[Longest], NEW e \in Int
  PROVE  IsNearest(FloatOf(V, e), V, e)
<1> DEFINE unit == IF e < SubnormalUlp THEN e ELSE SubnormalUlp
<1>1. PICK c \in Int : c = unit /\ c <= e /\ c <= SubnormalUlp /\ (c = e \/ c = SubnormalUlp)
  BY FormatFacts
<1>2. e - c \in Nat /\ SubnormalUlp - c \in Nat
  BY <1>1, FormatFacts
<1>3. PICK s \in Nat : s = Pow2[SubnormalUlp - c] /\ 0 < s
  BY <1>2, PowersPositive
<1>4. PICK w \in Nat : w = Pow2[e - c] /\ 0 < w
  BY <1>2, PowersPositive
<1>5. PICK v \in Nat : v = V * w
  BY <1>4, Products
<1>6. SUFFICES IsNearestTo(FloatOf(V, e), v, s)
  BY <1>1, <1>3, <1>4, <1>5 DEF IsNearest
<1> HIDE DEF unit
<1>7. CASE V = 0
  <2>1. v = 0 /\ 2 * v < s
    BY <1>3, <1>4, <1>5, <1>7
  <2>2. FloatOf(V, e) = 0
    BY <1>7 DEF FloatOf
  <2>3. QED
    BY <1>3, <2>1, <2>2, TooSmall
<1>8. CASE V # 0
  <2>1. PICK b \in Nat : /\ b = BitLength(V) /\ b - 1 \in Nat /\ Top(V, e) = b - 1 + e
                         /\ Pow2[b - 1] <= V /\ V < Pow2[b] /\ Top(V, e) \in Int
    BY <1>8, TopIs
  <2>2. PICK t \in Int : t = Top(V, e) /\ t = b - 1 + e
    BY <2>1
  <2>3. FloatOf(V, e) = IF t < SubnormalUlp - 1 THEN 0
                        ELSE IF t > EMax THEN Infinity
                        ELSE Rounded(V, e) * Pow2[OracleUlp(t) - SubnormalUlp]
    BY <1>8, <2>2, Zenon DEF FloatOf
  <2>4. CASE t < SubnormalUlp - 1
    <3>1. SubnormalUlp - e \in Nat /\ b + 1 <= SubnormalUlp - e /\ e < SubnormalUlp /\ b + 1 \in Nat
      BY <2>1, <2>2, <2>4, FormatFacts
    <3>2. c = e
      BY <3>1 , <1>1 DEF unit
    <3>3. w = 1 /\ v = V
      <4>1. e - c = 0
        BY <3>2
      <4>2. w = 1
        BY <1>4, <4>1, PowersDouble
      <4>3. QED
        BY <1>5, <4>2
    <3>4. Pow2[b + 1] <= s /\ Pow2[b + 1] = 2 * Pow2[b] /\ Pow2[b] \in Nat
      BY <1>3, <3>1, <3>2, PowersGrow, PowersDouble, PowersPositive
    <3>5. 2 * v < s
      BY <1>3, <2>1, <3>3, <3>4
    <3>6. FloatOf(V, e) = 0
      BY <2>3, <2>4, Zenon
    <3>7. QED
      BY <1>3, <3>5, <3>6, TooSmall
  <2>5. CASE t > EMax
    <3>1. ~(t < SubnormalUlp - 1)
      BY <2>5, FormatFacts
    <3>2. FloatOf(V, e) = Infinity
      BY <2>3, <2>5, <3>1, Zenon
    <3>3. PICK N \in Nat : N = EMax + 1 - SubnormalUlp
      BY FormatFacts
    <3>4. N + (SubnormalUlp - c) <= (b - 1) + (e - c)
      BY <2>2, <2>5, <3>3, FormatFacts
    <3>5. N + (SubnormalUlp - c) \in Nat /\ (b - 1) + (e - c) \in Nat
      BY <1>2, <2>1, <3>3
    <3>6. Infinity * s = Pow2[N + (SubnormalUlp - c)]
      <4>1. Pow2[N + (SubnormalUlp - c)] = Pow2[N] * Pow2[SubnormalUlp - c]
        BY <1>2, <3>3, PowersAdd, Zenon
      <4>2. QED
        BY <1>3, <3>3, <4>1 DEF Infinity
    <3>7. PICK B \in Nat : B = Pow2[b - 1] /\ B <= V
      BY <2>1, PowersPositive
    <3>8. B * w = Pow2[(b - 1) + (e - c)]
      <4>1. Pow2[(b - 1) + (e - c)] = Pow2[b - 1] * Pow2[e - c]
        BY <1>2, <2>1, PowersAdd, Zenon
      <4>2. QED
        BY <1>4, <3>7, <4>1
    <3>9. B * w <= v
      BY <1>4, <1>5, <3>7, ProductsGrow
    <3>10. Infinity * s <= B * w
      BY <3>4, <3>5, <3>6, <3>8, PowersGrow
    <3>11. Infinity * s <= v
      <4>1. PICK x \in Nat, y \in Nat : x = Infinity * s /\ y = B * w
        BY <1>3, <1>4, <3>7, FloatsAre, Products
      <4>2. QED
        BY <3>9, <3>10, <4>1
    <3>12. QED
      BY <1>3, <3>2, <3>11, TooLarge
  <2>6. CASE ~(t < SubnormalUlp - 1) /\ ~(t > EMax)
    <3>1. PICK u \in Int : u = OracleUlp(t)
      BY UlpIs
    <3>2. SubnormalUlp <= u /\ u - SubnormalUlp \in Nat /\ u - SubnormalUlp <= EMax - EMin
      BY <2>6, <3>1, UlpIs, FormatFacts
    <3>3. PICK k \in Nat : k = u - SubnormalUlp /\ k <= EMax - EMin
      BY <3>2
    <3>4. FloatOf(V, e) = Rounded(V, e) * Pow2[k]
      BY <2>3, <2>6, <3>1, <3>3, Zenon
    <3>5. \E q : IsRounding(V, e, u, q)
      <4>1. u = OracleUlp(Top(V, e))
        BY <2>2, <3>1
      <4>2. u <= e \/ e < u
        OBVIOUS
      <4>3. QED
        BY <1>8, <4>1, <4>2, RoundedUnshifted, RoundedShifted
    <3>6. PICK q : IsRounding(V, e, u, q)
      BY <3>5
    <3>7. c <= u
      BY <1>1, <3>2, FormatFacts
    <3>8. PICK U \in Nat : U = Pow2[u - c]
      <4>1. u - c \in Nat
        BY <3>7
      <4>2. QED
        BY <4>1, PowersPositive
    <3>9. /\ q \in Nat /\ q < Pow2[MantBits] /\ (u = SubnormalUlp \/ Pow2[MantBits - 1] <= q)
          /\ q * U <= v /\ v < (q + 1) * U
          /\ Rounded(V, e) = HalfEven(q, v - q * U, U)
      BY <1>1, <1>4, <1>5, <3>6, <3>7, <3>8, Zenon DEF IsRounding
    <3>10. U = Pow2[k] * s
      <4>1. u - c = k + (SubnormalUlp - c)
        BY <3>3, FormatFacts
      <4>2. Pow2[k + (SubnormalUlp - c)] = Pow2[k] * Pow2[SubnormalUlp - c]
        BY <1>2, <3>3, PowersAdd, Zenon
      <4>3. QED
        BY <1>3, <3>8, <4>1, <4>2
    <3>11. k = 0 \/ Pow2[MantBits - 1] <= q
      BY <3>3, <3>9, FormatFacts
    <3>12. IsNearestTo(HalfEven(q, v - q * U, U) * Pow2[k], v, s)
      BY <1>3, <1>5, <3>3, <3>8, <3>9, <3>10, <3>11, NearestBetween, ZenonT(60)
    <3>13. QED
      BY <3>4, <3>9, <3>12
  <2>7. QED
    BY <2>4, <2>5, <2>6
<1>9. QED
  BY <1>7, <1>8

-----------------------------------------------------------------------------
(* Rounding V to whole units of P * S and m to whole units of P: the same. *)
CutAlike(V, m, S, half, P, more) ==
  HalfEven(V \div (P * S), V % (P * S), P * S)
    = IF RoundsUp(m \div P, m % P, half, more) THEN m \div P + 1 ELSE m \div P

LEMMA CutAway ==
  ASSUME NEW V \in Nat, NEW m \in Nat, NEW S \in Nat, 0 < S, NEW mS \in Nat, mS = m * S,
         mS <= V, V < mS + S, NEW half \in Nat, 0 < half, NEW P \in Nat, P = 2 * half,
         NEW more \in BOOLEAN, more <=> V # mS
  PROVE  CutAlike(V, m, S, half, P, more)
<1>1. PICK q \in Nat, rest \in Nat : q = m \div P /\ rest = m % P /\ rest < P /\ m = q * P + rest
  BY Divided
<1>2. PICK r \in Nat : V = mS + r /\ r < S /\ (more <=> r # 0)
  <2>1. V - mS \in Nat /\ V = mS + (V - mS) /\ V - mS < S /\ (V # mS <=> V - mS # 0)
    OBVIOUS
  <2>2. more <=> V - mS # 0
    BY <2>1, Zenon
  <2>3. QED
    BY <2>1, <2>2, Zenon
<1>3. PICK x \in Nat, y \in Nat, PS \in Nat : x = rest * S /\ y = half * S /\ PS = P * S
  BY Products
<1>4. PS = 2 * y
  BY <1>3, Products
<1>5. PICK qP \in Nat : qP = q * P
  BY Products
<1>6. mS = q * PS + x
  <2>1. (qP + rest) * S = qP * S + x
    BY <1>3, Sums
  <2>2. qP * S = q * PS
    BY <1>3, <1>5, Products
  <2>3. QED
    BY <1>1, <1>5, <2>1, <2>2, Zenon
<1>7. /\ rest < half => x + S <= y
      /\ rest = half => x = y
      /\ half < rest => y + S <= x
      /\ x + S <= PS
  <2>1. \A a \in Nat, c \in Nat : a < c => a * S + S <= c * S
    <3>1. SUFFICES ASSUME NEW a \in Nat, NEW c \in Nat, a < c PROVE a * S + S <= c * S
      OBVIOUS
    <3>2. a + 1 \in Nat /\ a + 1 <= c
      BY <3>1
    <3>3. (a + 1) * S <= c * S
      BY <3>2, ProductsGrow
    <3>4. (a + 1) * S = a * S + S
      BY OneMore
    <3>5. QED
      BY <3>3, <3>4, Zenon
  <2>2. QED
    BY <1>1, <1>3, <2>1
<1>8. PICK l \in Nat : l = x + r /\ l < PS
  BY <1>2, <1>7
<1>9. V = q * PS + l
  <2>1. PICK z \in Nat : z = q * PS
    BY Products
  <2>2. QED
    BY <1>2, <1>6, <1>8, <2>1
<1>10. V \div PS = q /\ V % PS = l
  BY <1>8, <1>9, DividedOnly
<1>11. /\ 2 * l > PS <=> rest > half \/ (rest = half /\ r # 0)
       /\ 2 * l = PS <=> rest = half /\ r = 0
  BY <1>2, <1>4, <1>7, <1>8
<1>12. HalfEven(q, l, PS) = IF rest > half \/ (rest = half /\ (r # 0 \/ q % 2 = 1))
                             THEN q + 1 ELSE q
  <2>1. 2 * l > PS \/ (2 * l = PS /\ q % 2 = 1)
          <=> rest > half \/ (rest = half /\ (r # 0 \/ q % 2 = 1))
    BY <1>11, Zenon
  <2>2. CASE 2 * l > PS \/ (2 * l = PS /\ q % 2 = 1)
    BY <2>1, <2>2, Zenon DEF HalfEven
  <2>3. CASE ~(2 * l > PS \/ (2 * l = PS /\ q % 2 = 1))
    BY <2>1, <2>3, Zenon DEF HalfEven
  <2>4. QED
    BY <2>2, <2>3, Zenon
<1>13. RoundsUp(q, rest, half, more) <=> rest > half \/ (rest = half /\ (r # 0 \/ q % 2 = 1))
  BY <1>2, Zenon DEF RoundsUp
<1>14. HalfEven(q, l, PS) = IF RoundsUp(q, rest, half, more) THEN q + 1 ELSE q
  <2>1. CASE RoundsUp(q, rest, half, more)
    BY <1>12, <1>13, <2>1, Zenon
  <2>2. CASE ~RoundsUp(q, rest, half, more)
    BY <1>12, <1>13, <2>2, Zenon
  <2>3. QED
    BY <2>1, <2>2, Zenon
<1>15. QED
  BY <1>1, <1>3, <1>10, <1>14, Zenon DEF CutAlike

LEMMA ExactFits ==
  ASSUME HexInv
  PROVE  exact \in Nat /\ exact < Pow2[Longest] /\ mantissa < Pow2[Longest]
<1>1. /\ exactDigits \in Nat /\ exactDigits <= MaxDigits /\ exact \in Nat /\ mantissa \in Nat
      /\ exact < Pow2[DigitBits * exactDigits] /\ mantissa < Pow2[AccBits]
  BY DEF HexInv
<1>2. AccBits <= Longest /\ DigitBits * exactDigits <= Longest
  <2>1. \A a \in Nat, x \in Nat, y \in Nat : x <= y => a * x <= a * y
    BY ProductsGrow, Products
  <2>2. DigitBits * exactDigits <= DigitBits * MaxDigits
    BY <1>1, <2>1, DigitFacts
  <2>3. DigitBits * exactDigits \in Nat /\ DigitBits * MaxDigits \in Nat /\ AccBits \in Nat
    BY <1>1, DigitFacts
  <2>4. QED
    BY <2>2, <2>3 DEF Longest
<1>3. AccBits \in Nat /\ DigitBits * exactDigits \in Nat /\ Longest \in Nat
  BY <1>1, DigitFacts, LongestIs
<1>4. Pow2[AccBits] <= Pow2[Longest] /\ Pow2[DigitBits * exactDigits] <= Pow2[Longest]
  BY <1>2, <1>3, PowersGrow
<1>5. /\ Pow2[AccBits] \in Nat /\ Pow2[Longest] \in Nat /\ Pow2[DigitBits * exactDigits] \in Nat
  BY <1>3, PowersPositive
<1>6. QED
  BY <1>1, <1>4, <1>5

(* The exponent is held between the caps, and anything less is kept. *)
LEMMA ClampedIs ==
  ASSUME NEW p \in Int
  PROVE  /\ Clamped(p) \in Int /\ -ExpCap <= Clamped(p) /\ Clamped(p) <= ExpCap
         /\ \/ Clamped(p) = p
            \/ p > ExpCap /\ Clamped(p) = ExpCap
            \/ p < -ExpCap /\ Clamped(p) = -ExpCap
BY HexAssumption DEF HexAssumption, Clamped

(* The places of the digits, whichever of them were kept. *)
LEMMA PlacesFit ==
  ASSUME HexInv
  PROVE  /\ DigitBits * MaxDigits \in Nat
         /\ DigitBits * fracDigits \in 0 .. DigitBits * MaxDigits
         /\ DigitBits * droppedDigits \in 0 .. DigitBits * MaxDigits
         /\ DigitBits * exactDigits \in 0 .. DigitBits * MaxDigits
         /\ fracDigits \in 0 .. DigitBits * MaxDigits
         /\ droppedDigits \in 0 .. DigitBits * MaxDigits
<1>1. /\ fracDigits \in Nat /\ droppedDigits \in Nat /\ exactDigits \in Nat /\ MaxDigits \in Nat
      /\ fracDigits <= MaxDigits /\ droppedDigits <= MaxDigits /\ exactDigits <= MaxDigits
  BY DigitFacts DEF HexInv
<1>2. ASSUME NEW x \in Nat, x <= MaxDigits
      PROVE  x \in 0 .. DigitBits * MaxDigits /\ DigitBits * x \in 0 .. DigitBits * MaxDigits
  <2>1. PICK D \in Nat, X \in Nat, L \in Nat :
               D = DigitBits /\ 0 < D /\ X = D * x /\ L = D * MaxDigits
    BY <1>1, DigitFacts
  <2>2. X <= L
    BY <1>1, <1>2, <2>1, ProductsGrow, Products
  <2>3. 1 * x <= D * x
    BY <2>1, ProductsGrow
  <2>4. x <= X
    BY <2>1, <2>3
  <2>5. QED
    BY <2>1, <2>2, <2>4
<1>3. QED
  BY <1>1, <1>2, DigitFacts

(* The leading bit of what was kept is the leading bit of the literal. *)
LEMMA LeadingBit ==
  ASSUME HexInv, mantissa # 0
  PROVE  /\ exact # 0 /\ BitLength(exact) \in 1 .. DigitBits * MaxDigits
         /\ BitLength(mantissa) \in Nat
         /\ BitLength(exact) = BitLength(mantissa) + DigitBits * droppedDigits
<1>1. PICK n \in Nat : n = DigitBits * droppedDigits
  BY PlacesFit
<1>2. PICK S \in Nat : S = Cut /\ S = Pow2[n] /\ 0 < S
  BY <1>1, PowersPositive DEF Cut
<1>3. PICK m \in Nat : m = mantissa
  BY DEF HexInv
<1>4. PICK V \in Nat : V = exact
  BY DEF HexInv
<1>5. m * S <= V /\ V < (m + 1) * S
  BY <1>2, <1>3, <1>4, Zenon DEF HexInv
<1>6. PICK mS \in Nat : mS = m * S /\ (m + 1) * S = mS + S
  BY <1>2, Products, OneMore
<1>7. mS <= V /\ V < mS + S
  BY <1>5, <1>6, Zenon
<1>8. m < Pow2[Longest] /\ V < Pow2[Longest]
  BY <1>3, <1>4, ExactFits
<1>9. PICK b \in Nat : /\ b = BitLength(m) /\ b - 1 \in Nat /\ Pow2[b - 1] <= m /\ m < Pow2[b]
  BY <1>3, <1>8, Lengths
<1>10. PICK j \in Nat : j = (b - 1) + n /\ j + 1 = b + n
  <2>1. (b - 1) + n \in Nat /\ ((b - 1) + n) + 1 = b + n
    BY <1>9
  <2>2. QED
    BY <2>1
<1>11. Pow2[j] <= V
  <2>1. PICK B \in Nat : B = Pow2[b - 1] /\ B <= m
    BY <1>9, PowersPositive
  <2>2. B * S <= mS
    BY <1>2, <1>6, <2>1, ProductsGrow
  <2>3. Pow2[(b - 1) + n] = Pow2[b - 1] * Pow2[n]
    BY <1>9, PowersAdd, Zenon
  <2>4. Pow2[j] = B * S
    BY <1>2, <1>10, <2>1, <2>3, Zenon
  <2>5. PICK z \in Nat : z = B * S
    BY Products
  <2>6. QED
    BY <1>7, <2>2, <2>4, <2>5
<1>12. V < Pow2[j + 1]
  <2>1. PICK B \in Nat : B = Pow2[b] /\ m + 1 <= B
    BY <1>9, PowersPositive
  <2>2. (m + 1) * S <= B * S
    <3>1. m + 1 \in Nat
      OBVIOUS
    <3>2. QED
      BY <1>2, <2>1, <3>1, ProductsGrow
  <2>3. Pow2[b + n] = Pow2[b] * Pow2[n]
    BY <1>9, PowersAdd, Zenon
  <2>4. Pow2[j + 1] = B * S
    BY <1>2, <1>10, <2>1, <2>3, Zenon
  <2>5. PICK z \in Nat : z = B * S
    BY Products
  <2>6. QED
    BY <1>6, <1>7, <2>2, <2>4, <2>5
<1>13. BitLength(V) = j + 1
  BY <1>8, <1>11, <1>12, LengthIs
<1>14. V # 0
  <2>1. 0 < Pow2[j] /\ Pow2[j] \in Nat
    BY PowersPositive
  <2>2. QED
    BY <1>11, <2>1
<1>15. j + 1 <= DigitBits * MaxDigits
  <2>1. PICK d \in Nat : d = DigitBits * exactDigits /\ d <= DigitBits * MaxDigits /\ V < Pow2[d]
    BY <1>4, PlacesFit DEF HexInv
  <2>2. d <= j => Pow2[d] <= Pow2[j]
    BY PowersGrow
  <2>3. Pow2[d] \in Nat /\ Pow2[j] \in Nat
    BY PowersPositive
  <2>4. j < d
    BY <1>11, <2>1, <2>2, <2>3
  <2>5. QED
    BY <2>1, <2>4, PlacesFit
<1>16. QED
  BY <1>1, <1>3, <1>4, <1>9, <1>10, <1>13, <1>14, <1>15, PlacesFit

(* An exponent beyond the cap is beyond the format, and stays there. *)
LEMMA ClampedAlike ==
  ASSUME HexInv, NEW p \in Int
  PROVE  FloatOf(exact, Clamped(p) - DigitBits * fracDigits)
           = FloatOf(exact, p - DigitBits * fracDigits)
<1>1. PICK L \in Nat, f \in Nat : L = DigitBits * MaxDigits /\ f = DigitBits * fracDigits /\ f <= L
  BY PlacesFit
<1>2. PICK c \in Int : c = Clamped(p)
  BY ClampedIs
<1>3. L + EMax + MantBits <= ExpCap + 1 /\ ExpCap \in Nat
  BY <1>1, HexAssumption DEF HexAssumption
<1>4. CASE exact = 0
  BY <1>4 DEF FloatOf
<1>5. CASE c = p
  BY <1>2, <1>5
<1>6. CASE exact # 0 /\ c # p
  <2>1. PICK b \in Nat : b = BitLength(exact) /\ 1 <= b /\ b <= L
    <3>1. PICK d \in Nat : d = DigitBits * exactDigits /\ d <= L /\ exact < Pow2[d]
      BY <1>1, PlacesFit DEF HexInv
    <3>2. PICK b \in Nat : b = BitLength(exact) /\ b - 1 \in Nat /\ Pow2[b - 1] <= exact
      BY <1>6, ExactFits, Lengths
    <3>3. d <= b - 1 => Pow2[d] <= Pow2[b - 1]
      BY <3>2, PowersGrow
    <3>4. Pow2[d] \in Nat /\ Pow2[b - 1] \in Nat /\ exact \in Nat
      BY <3>2, PowersPositive, ExactFits
    <3>5. b - 1 < d
      BY <3>1, <3>2, <3>3, <3>4
    <3>6. QED
      BY <3>1, <3>2, <3>5
  <2>2. Top(exact, c - f) = b - 1 + (c - f) /\ Top(exact, p - f) = b - 1 + (p - f)
    BY <2>1, Zenon DEF Top
  <2>3. PICK t \in Int, s \in Int : /\ t = b - 1 + (c - f) /\ t = Top(exact, c - f)
                                   /\ s = b - 1 + (p - f) /\ s = Top(exact, p - f)
    BY <2>2
  <2>4. CASE p > ExpCap
    <3>1. t > EMax /\ s > EMax /\ ~(t < SubnormalUlp - 1) /\ ~(s < SubnormalUlp - 1)
      BY <1>1, <1>2, <1>3, <1>6, <2>1, <2>3, <2>4, ClampedIs, FormatFacts
    <3>2. FloatOf(exact, c - f) = Infinity /\ FloatOf(exact, p - f) = Infinity
      BY <1>6, <2>3, <3>1, Zenon DEF FloatOf
    <3>3. QED
      BY <1>1, <1>2, <3>2
  <2>5. CASE p < -ExpCap
    <3>1. t < SubnormalUlp - 1 /\ s < SubnormalUlp - 1
      BY <1>1, <1>2, <1>3, <1>6, <2>1, <2>3, <2>5, ClampedIs, FormatFacts
    <3>2. FloatOf(exact, c - f) = 0 /\ FloatOf(exact, p - f) = 0
      BY <2>3, <3>1, Zenon DEF FloatOf
    <3>3. QED
      BY <1>1, <1>2, <3>2
  <2>6. QED
    BY <1>2, <1>6, <2>4, <2>5, ClampedIs
<1>7. QED
  BY <1>4, <1>5, <1>6

(* The port has what the reference has, but for the digits it dropped. *)
LEMMA PortIs ==
  ASSUME HexInv, NEW p \in Int
  PROVE  Converted(p) = FloatOf(exact, Clamped(p) - DigitBits * fracDigits)
<1>1. /\ mantissa \in Nat /\ sticky \in BOOLEAN /\ droppedDigits \in Nat /\ fracDigits \in Nat
      /\ exact \in Nat /\ mantissa < Pow2[AccBits]
      /\ mantissa * Cut <= exact /\ exact < (mantissa + 1) * Cut
      /\ sticky <=> exact # mantissa * Cut
      /\ droppedDigits > 0 => mantissa > Room
  BY DEF HexInv
<1>2. PICK n \in Nat : n = DigitBits * droppedDigits
  BY <1>1, DigitFacts
<1>3. PICK f \in Nat : f = DigitBits * fracDigits
  BY <1>1, DigitFacts
<1>4. PICK c \in Int, e \in Int : c = Clamped(p) /\ e = c - f
  BY <1>3, ClampedIs
<1>5. Places = (-f) + n
  BY <1>2, <1>3, Zenon DEF Places
<1>6. PICK S \in Nat : S = Cut /\ S = Pow2[n] /\ 0 < S
  BY <1>2, PowersPositive DEF Cut
<1>7. PICK m \in Nat : m = mantissa
  BY <1>1
<1>8. PICK V \in Nat : V = exact
  BY <1>1
<1>9. Converted(p) = IF m = 0 THEN 0 ELSE RoundToF64(m, sticky, e + n)
  <2>1. ((-f) + n) + c = e + n
    BY <1>4
  <2>2. QED
    BY <1>4, <1>5, <1>7, <2>1, Zenon DEF Converted, Exp2
<1>10. m * S <= V /\ V < (m + 1) * S /\ (sticky <=> V # m * S)
  BY <1>1, <1>6, <1>7, <1>8, Zenon
<1>11. PICK mS \in Nat : mS = m * S /\ (m + 1) * S = mS + S
  BY <1>6, Products, OneMore
<1>12. mS <= V /\ V < mS + S /\ (sticky <=> V # mS)
  BY <1>10, <1>11, Zenon
<1>13. CASE m = 0
  <2>1. droppedDigits = 0
    BY <1>1, <1>7, <1>13, RoomIs, DigitFacts, PowersPositive
  <2>2. n = 0 /\ S = 1
    <3>1. DigitBits * 0 = 0
      BY DigitFacts
    <3>2. QED
      BY <1>2, <1>6, <2>1, <3>1, PowersDouble
  <2>3. mS = 0
    BY <1>11, <1>13, <2>2
  <2>4. V = 0
    BY <1>12, <2>2, <2>3
  <2>5. QED
    BY <1>8, <1>9, <1>13, <2>4 DEF FloatOf
<1>14. CASE m # 0
  <2>1. m < Pow2[Longest] /\ V < Pow2[Longest]
    BY <1>7, <1>8, ExactFits
  <2>2. PICK b \in Nat : /\ b = BitLength(m) /\ b - 1 \in Nat /\ Pow2[b - 1] <= m /\ m < Pow2[b]
    BY <1>14, <2>1, Lengths
  <2>3. PICK j \in Nat : j = (b - 1) + n /\ j + 1 = b + n
    <3>1. (b - 1) + n \in Nat /\ ((b - 1) + n) + 1 = b + n
      BY <2>2
    <3>2. QED
      BY <3>1
  <2>6. BitLength(V) = j + 1
    BY <1>2, <1>7, <1>8, <1>14, <2>2, <2>3, LeadingBit
  <2>7. PICK t \in Int : t = (e + n) + b - 1 /\ t = Top(V, e)
    BY <2>3, <2>6 DEF Top
  <2>8. V # 0
    BY <1>7, <1>8, <1>14, LeadingBit
  <2>9. PICK u \in Int : u = OracleUlp(t)
    BY UlpIs
  <2>10. PICK sh \in Int : sh = u - (e + n)
    OBVIOUS
  <2> DEFINE kept == m \div Pow2[sh]
  <2> DEFINE units == IF sh <= 0 THEN m * Pow2[-sh]
                      ELSE IF RoundsUp(kept, m % Pow2[sh], Pow2[sh - 1], sticky) THEN kept + 1
                      ELSE kept
  <2>11. RoundToF64(m, sticky, e + n) = IF t >= EMax + 1 THEN Infinity
                                        ELSE IF t < SubnormalUlp - 1 THEN 0
                                        ELSE units * Pow2[u - SubnormalUlp]
    <3>1. ValueExp(m, e + n) = t
      BY <2>2, <2>7, Zenon DEF ValueExp
    <3>2. UlpExp(m, e + n) = u
      BY <2>9, <3>1, Zenon DEF UlpExp, OracleUlp
    <3>3. Shift(m, e + n) = sh
      BY <2>10, <3>2, Zenon DEF Shift
    <3>4. Units(m, sticky, e + n) = units
      BY <3>3, Zenon DEF Units
    <3> HIDE DEF units
    <3>5. QED
      BY <3>1, <3>2, <3>4, Zenon DEF RoundToF64, Overflows, Underflows
  <2>12. FloatOf(V, e) = IF t < SubnormalUlp - 1 THEN 0
                         ELSE IF t > EMax THEN Infinity
                         ELSE Rounded(V, e) * Pow2[u - SubnormalUlp]
    BY <2>7, <2>8, <2>9, Zenon DEF FloatOf
  <2>13. units = Rounded(V, e)
    <3>1. CASE sh <= 0
      <4>1. t - (MantBits - 1) <= u /\ MantBits \in Nat
        BY <2>9, UlpIs, FormatFacts
      <4>2. b <= MantBits
        BY <2>2, <2>7, <2>10, <3>1, <4>1
      <4>3. droppedDigits = 0
        <5>1. SUFFICES ASSUME droppedDigits > 0 PROVE FALSE
          BY <1>1
        <5>2. PICK h \in Nat : h = Pow2[AccBits - DigitBits] /\ h <= m
          BY <1>1, <1>7, <5>1, RoomIs, DigitFacts, PowersPositive
        <5>3. b <= AccBits - DigitBits /\ AccBits - DigitBits \in Nat
          BY <4>1, <4>2, DigitFacts
        <5>4. Pow2[b] <= h
          BY <5>2, <5>3, PowersGrow
        <5>5. Pow2[b] \in Nat
          BY PowersPositive
        <5>6. QED
          BY <2>2, <5>2, <5>4, <5>5
      <4>4. n = 0 /\ S = 1
        <5>1. DigitBits * 0 = 0
          BY DigitFacts
        <5>2. QED
          BY <1>2, <1>6, <4>3, <5>1, PowersDouble
      <4>5. m = V
        BY <1>11, <1>12, <4>4
      <4>6. -sh = e - u /\ u <= e
        BY <2>10, <3>1, <4>4
      <4>7. Rounded(V, e) = V * Pow2[e - u]
        BY <2>1, <2>7, <2>8, <2>9, <4>6, RoundedUnshifted
      <4>8. QED
        BY <3>1, <4>5, <4>6, <4>7, Zenon
    <3>2. CASE ~(sh <= 0)
      <4>1. sh \in Nat /\ sh - 1 \in Nat /\ (sh - 1) + 1 = sh /\ u - e = sh + n /\ e < u
        BY <2>10, <3>2
      <4>2. PICK half \in Nat : half = Pow2[sh - 1] /\ 0 < half
        BY <4>1, PowersPositive
      <4>3. PICK P \in Nat : P = Pow2[sh] /\ P = 2 * half
        BY <4>1, <4>2, PowersPositive, PowersDouble
      <4>4. Pow2[u - e] = P * S
        <5>1. Pow2[sh + n] = Pow2[sh] * Pow2[n]
          BY <4>1, PowersAdd, Zenon
        <5>2. QED
          BY <1>6, <4>1, <4>3, <5>1, Zenon
      <4>5. Rounded(V, e) = HalfEven(V \div Pow2[u - e], V % Pow2[u - e], Pow2[u - e])
        BY <2>1, <2>7, <2>8, <2>9, <4>1, RoundedShifted
      <4>6. HalfEven(V \div (P * S), V % (P * S), P * S)
              = IF RoundsUp(m \div P, m % P, half, sticky) THEN m \div P + 1 ELSE m \div P
        <5>1. /\ 0 < S /\ mS = m * S /\ mS <= V /\ V < mS + S /\ 0 < half /\ P = 2 * half
              /\ sticky \in BOOLEAN
          BY <1>1, <1>6, <1>11, <1>12, <4>2, <4>3, Zenon
        <5>2. sticky <=> V # mS
          BY <1>12, Zenon
        <5>3. /\ V \in Nat /\ m \in Nat /\ S \in Nat /\ mS \in Nat /\ half \in Nat /\ P \in Nat
          BY <1>6, <1>7, <1>8, <1>11, <4>2, <4>3, Zenon
        <5>4. CutAlike(V, m, S, half, P, sticky)
          BY <5>1, <5>2, <5>3, CutAway
        <5>5. QED
          BY <5>4, Zenon DEF CutAlike
      <4>7. QED
        BY <3>2, <4>2, <4>3, <4>4, <4>5, <4>6, Zenon
    <3>3. QED
      BY <3>1, <3>2
  <2>14. RoundToF64(m, sticky, e + n) = FloatOf(V, e)
    <3> HIDE DEF units
    <3>1. CASE t > EMax
      <4>1. t >= EMax + 1 /\ ~(t < SubnormalUlp - 1)
        BY <3>1, FormatFacts
      <4>2. QED
        BY <2>11, <2>12, <3>1, <4>1, Zenon
    <3>2. CASE ~(t > EMax)
      <4>1. ~(t >= EMax + 1)
        BY <3>2, FormatFacts
      <4>2. QED
        BY <2>11, <2>12, <2>13, <3>2, <4>1, Zenon
    <3>3. QED
      BY <3>1, <3>2
  <2>15. QED
    BY <1>3, <1>4, <1>8, <1>9, <1>14, <2>14, Zenon
<1>15. QED
  BY <1>13, <1>14

-----------------------------------------------------------------------------
(* The bit pattern of the reference stands for the same float. *)
LEMMA InfiniteIs == Unpacked((2 * EMax + 1) * Pow2[MantBits - 1]) = Infinity
<1>1. PICK h \in Nat : h = Pow2[MantBits - 1] /\ 0 < h
  BY PowersPositive, FormatFacts
<1>2. PICK x \in Nat : x = 2 * EMax + 1 /\ x # 0 /\ x - 1 = 2 * EMax /\ 2 * EMax \in Nat
  BY FormatFacts
<1>3. x * h + 0 = x * h
  BY <1>1, <1>2, Products
<1>4. (x * h) \div h = x /\ (x * h) % h = 0
  <2>1. (x * h + 0) \div h = x /\ (x * h + 0) % h = 0
    BY <1>1, <1>2, DividedOnly
  <2>2. QED
    BY <1>3, <2>1
<1>5. Unpacked(x * h) = (h + 0) * Pow2[x - 1]
  BY <1>1, <1>2, <1>4, Zenon DEF Unpacked
<1>6. h + 0 = h
  BY <1>1
<1>7. Pow2[(MantBits - 1) + 2 * EMax] = h * Pow2[2 * EMax]
  <2>1. MantBits - 1 \in Nat
    BY FormatFacts
  <2>2. QED
    BY <1>1, <1>2, <2>1, PowersAdd, Zenon
<1>8. (MantBits - 1) + 2 * EMax = EMax + 1 - SubnormalUlp
  BY FormatFacts
<1>9. QED
  BY <1>1, <1>2, <1>5, <1>6, <1>7, <1>8, Zenon DEF Infinity

LEMMA UnpackedNormal ==
  ASSUME NEW x \in Nat, x # 0, NEW g \in Nat, g < Pow2[MantBits - 1]
  PROVE  Unpacked(x * Pow2[MantBits - 1] + g) = (Pow2[MantBits - 1] + g) * Pow2[x - 1]
<1>1. PICK h \in Nat : h = Pow2[MantBits - 1] /\ 0 < h
  BY PowersPositive, FormatFacts
<1>2. (x * h + g) \div h = x /\ (x * h + g) % h = g
  BY <1>1, DividedOnly
<1>3. QED
  BY <1>1, <1>2, Zenon DEF Unpacked

LEMMA UnpackedSubnormal ==
  ASSUME NEW g \in Nat, g < Pow2[MantBits - 1]
  PROVE  Unpacked(g) = g
<1>1. PICK h \in Nat : h = Pow2[MantBits - 1] /\ 0 < h
  BY PowersPositive, FormatFacts
<1>2. 0 * h + g = g
  BY <1>1
<1>3. g \div h = 0 /\ g % h = g
  <2>1. (0 * h + g) \div h = 0 /\ (0 * h + g) % h = g
    BY <1>1, DividedOnly
  <2>2. QED
    BY <1>2, <2>1
<1>4. QED
  BY <1>1, <1>3, Zenon DEF Unpacked

(* A whole number of ulps, as a bit pattern. *)
Patterned(rounded, ulp) ==
  LET drop  == Larger(0, BitLength(rounded) - MantBits)
      whole == rounded \div Pow2[drop]
      top   == ulp + drop + BitLength(whole) - 1
      lead  == BitLength(whole) - 1
  IN  IF rounded = 0      THEN 0
      ELSE IF top > EMax  THEN (2 * EMax + 1) * Pow2[MantBits - 1]
      ELSE IF top < EMin  THEN whole
      ELSE (top + EMax) * Pow2[MantBits - 1]
             + (whole - Pow2[lead]) * Pow2[MantBits - 1 - lead]

LEMMA MantFits ==
  /\ MantBits <= Longest /\ Pow2[MantBits] < Pow2[Longest]
<1>1. PICK m \in Nat, A \in Nat, D \in Nat : m = MantBits /\ A = AccBits /\ D = DigitBits * MaxDigits
  BY DigitFacts, FormatFacts
<1>2. Longest = A + D /\ Longest \in Nat
  BY <1>1 DEF Longest
<1>3. m < A
  BY <1>1, DigitFacts
<1>4. m < Longest
  BY <1>2, <1>3
<1>5. QED
  BY <1>1, <1>2, <1>4, PowersGrow

LEMMA UnpackedIs ==
  ASSUME NEW t \in Int, SubnormalUlp - 1 <= t, NEW u \in Int, u = OracleUlp(t),
         NEW r \in Nat, r <= Pow2[MantBits], u = SubnormalUlp \/ Pow2[MantBits - 1] <= r
  PROVE  /\ t = EMax + 1 => Unpacked(Patterned(r, u)) = Infinity
         /\ t <= EMax => Unpacked(Patterned(r, u)) = r * Pow2[u - SubnormalUlp]
<1>1. /\ SubnormalUlp <= u /\ t - (MantBits - 1) <= u
      /\ u = SubnormalUlp \/ u = t - (MantBits - 1)
  BY UlpIs
<1>2. PICK M \in Nat : M = MantBits /\ M - 1 \in Nat /\ M - 2 \in Nat
  BY FormatFacts
<1>3. PICK h \in Nat : h = Pow2[M - 1] /\ 0 < h /\ Pow2[M] = 2 * h
  BY <1>2, Halves, PowersPositive
<1>4. /\ EMin = SubnormalUlp + (M - 1) /\ EMin = 1 - EMax
      /\ EMax \in Nat /\ 1 <= EMax /\ SubnormalUlp \in Int
  BY <1>2, FormatFacts
<1>5. PICK k \in Nat : k = u - SubnormalUlp
  BY UlpIs
<1>6. SUFFICES /\ t = EMax + 1 => Unpacked(Patterned(r, u)) = Infinity
               /\ t <= EMax => Unpacked(Patterned(r, u)) = r * Pow2[k]
  BY <1>5
<1>7. /\ t = EMax + 1 => u = t - (M - 1) /\ h <= r
      /\ t <= EMax => u + (M - 1) <= EMax
  <2>1. t = EMax + 1 => u = t - (M - 1) /\ u # SubnormalUlp
    BY <1>1, <1>2, <1>4
  <2>2. t <= EMax => u + (M - 1) <= EMax
    BY <1>1, <1>2, <1>4
  <2>3. QED
    BY <1>2, <1>3, <2>1, <2>2
<1>8. CASE r = 0
  <2>1. Patterned(r, u) = 0
    BY <1>8, Zenon DEF Patterned
  <2>2. Unpacked(0) = 0
    BY <1>2, <1>3, UnpackedSubnormal
  <2>3. 0 * Pow2[k] = 0
    BY PowersPositive
  <2>4. t # EMax + 1
    BY <1>3, <1>7, <1>8
  <2>5. QED
    BY <1>8, <2>1, <2>2, <2>3, <2>4
<1>9. CASE r # 0 /\ r < h
  <2>1. u = SubnormalUlp /\ k = 0
    BY <1>2, <1>3, <1>5, <1>9
  <2>2. t # EMax + 1
    BY <1>3, <1>7, <1>9
  <2>3. r < Pow2[Longest]
    BY <1>2, <1>3, <1>9, MantFits, LongestIs, PowersPositive
  <2>4. PICK b \in Nat : b = BitLength(r) /\ b - 1 \in Nat /\ Pow2[b - 1] <= r
    BY <1>9, <2>3, Lengths
  <2>5. b - 1 < M - 1
    <3>1. M - 1 <= b - 1 => h <= Pow2[b - 1]
      BY <1>2, <1>3, <2>4, PowersGrow
    <3>2. Pow2[b - 1] \in Nat
      BY <2>4, PowersPositive
    <3>3. QED
      BY <1>2, <1>3, <1>9, <2>4, <3>1, <3>2
  <2>6. Larger(0, BitLength(r) - MantBits) = 0
    BY <1>2, <2>4, <2>5 DEF Larger
  <2>7. r \div Pow2[0] = r
    <3>1. r \div 1 = r
      OBVIOUS
    <3>2. QED
      BY <3>1, PowersDouble
  <2>8. ~(u + 0 + b - 1 > EMax) /\ u + 0 + b - 1 < EMin
    BY <1>2, <1>4, <2>1, <2>4, <2>5, FormatFacts
  <2>9. Patterned(r, u) = r
    BY <1>9, <2>4, <2>6, <2>7, <2>8, Zenon DEF Patterned
  <2>10. Unpacked(r) = r
    BY <1>2, <1>3, <1>9, UnpackedSubnormal
  <2>11. r * Pow2[k] = r
    BY <2>1, PowersDouble
  <2>12. QED
    BY <2>2, <2>9, <2>10, <2>11
<1>10. CASE h <= r /\ r < Pow2[M]
  <2>1. r # 0 /\ r < Pow2[Longest]
    BY <1>2, <1>3, <1>10, MantFits, LongestIs, PowersPositive
  <2>2. (M - 1) + 1 = M
    BY <1>2
  <2>3. BitLength(r) = M
    BY <1>2, <1>3, <1>10, <2>1, <2>2, LengthIs
  <2>4. Larger(0, BitLength(r) - MantBits) = 0
    BY <1>2, <2>3 DEF Larger
  <2>5. r \div Pow2[0] = r
    <3>1. r \div 1 = r
      OBVIOUS
    <3>2. QED
      BY <3>1, PowersDouble
  <2>6. PICK top \in Int : top = u + 0 + M - 1 /\ top = u + (M - 1)
    BY <1>2
  <2>7. Patterned(r, u) = IF top > EMax THEN (2 * EMax + 1) * Pow2[MantBits - 1]
                          ELSE IF top < EMin THEN r
                          ELSE (top + EMax) * h + (r - h) * Pow2[(M - 1) - (M - 1)]
    BY <1>2, <1>3, <2>1, <2>3, <2>4, <2>5, <2>6, Zenon DEF Patterned
  <2>8. CASE t = EMax + 1
    <3>1. top > EMax
      BY <1>2, <1>4, <1>7, <2>6, <2>8
    <3>2. t # EMax /\ ~(t <= EMax)
      BY <1>4, <2>8
    <3>3. QED
      BY <2>7, <3>1, <3>2, InfiniteIs
  <2>9. CASE t <= EMax
    <3>1. ~(top > EMax) /\ ~(top < EMin)
      BY <1>1, <1>2, <1>4, <1>7, <2>6, <2>9
    <3>2. PICK g \in Nat : g = r - h /\ g < h /\ h + g = r
      BY <1>3, <1>10
    <3>3. PICK x \in Nat : x = top + EMax /\ x # 0 /\ x - 1 = k
      <4>1. top + EMax = k + 1
        BY <1>2, <1>4, <1>5, <2>6
      <4>2. QED
        BY <4>1
    <3>4. g * Pow2[(M - 1) - (M - 1)] = g
      <4>1. (M - 1) - (M - 1) = 0
        BY <1>2
      <4>2. QED
        BY <4>1, PowersDouble
    <3>5. Patterned(r, u) = x * h + g
      BY <2>7, <3>1, <3>2, <3>3, <3>4, Zenon
    <3>6. Unpacked(x * h + g) = (h + g) * Pow2[x - 1]
      BY <1>2, <1>3, <3>2, <3>3, UnpackedNormal
    <3>7. t # EMax + 1
      BY <1>4, <2>9
    <3>8. QED
      BY <3>2, <3>3, <3>5, <3>6, <3>7, Zenon
  <2>10. QED
    BY <2>8, <2>9
<1>11. CASE r = Pow2[M]
  <2>1. r # 0 /\ r < Pow2[Longest]
    BY <1>2, <1>3, <1>11, MantFits
  <2>2. r = 2 * h
    BY <1>3, <1>11
  <2>3. BitLength(r) = M + 1
    <3>1. Pow2[M + 1] = 2 * r /\ Pow2[M] <= r
      BY <1>11, PowersDouble
    <3>2. r < Pow2[M + 1]
      BY <2>1, <3>1
    <3>3. QED
      BY <2>1, <3>1, <3>2, LengthIs
  <2>4. Larger(0, BitLength(r) - MantBits) = 1
    BY <1>2, <2>3 DEF Larger
  <2>5. r \div Pow2[1] = h
    <3>1. Pow2[0 + 1] = 2 * Pow2[0]
      BY PowersDouble
    <3>2. Pow2[1] = 2
      BY <3>1, PowersDouble
    <3>3. QED
      BY <2>2, <3>2
  <2>6. BitLength(h) = M
    <3>1. (M - 1) + 1 = M
      BY <1>2
    <3>2. h < Pow2[M] /\ h < Pow2[Longest] /\ Pow2[M - 1] <= h
      BY <1>3, <1>11, <2>1, <2>2, LongestIs, PowersPositive
    <3>3. QED
      BY <1>2, <3>1, <3>2, LengthIs
  <2>7. PICK top \in Int : top = u + 1 + M - 1 /\ top = u + M
    BY <1>2
  <2>8. Patterned(r, u) = IF top > EMax THEN (2 * EMax + 1) * Pow2[MantBits - 1]
                          ELSE IF top < EMin THEN h
                          ELSE (top + EMax) * h + (h - h) * Pow2[(M - 1) - (M - 1)]
    BY <1>2, <1>3, <2>1, <2>3, <2>4, <2>5, <2>6, <2>7, Zenon DEF Patterned
  <2>9. r * Pow2[k] = Pow2[M + k] /\ r * Pow2[k] = h * Pow2[k + 1]
    <3>1. Pow2[M + k] = Pow2[M] * Pow2[k]
      BY PowersAdd, Zenon
    <3>2. Pow2[k + 1] = 2 * Pow2[k] /\ Pow2[k] \in Nat
      BY PowersDouble, PowersPositive
    <3>3. \A a \in Nat, b \in Nat : (2 * a) * b = a * (2 * b)
      OBVIOUS
    <3>4. r * Pow2[k] = h * Pow2[k + 1]
      BY <2>2, <3>2, <3>3
    <3>5. QED
      BY <1>11, <3>1, <3>4, Zenon
  <2>10. CASE top > EMax
    <3>1. Unpacked(Patterned(r, u)) = Infinity
      BY <2>8, <2>10, InfiniteIs, Zenon
    <3>2. t <= EMax => Pow2[M + k] = Infinity
      <4>1. SUFFICES ASSUME t <= EMax PROVE Pow2[M + k] = Infinity
        OBVIOUS
      <4>2. M + k = EMax + 1 - SubnormalUlp
        BY <1>2, <1>4, <1>5, <1>7, <2>7, <2>10, <4>1
      <4>3. QED
        BY <4>2 DEF Infinity
    <3>3. QED
      BY <2>9, <3>1, <3>2, Zenon
  <2>11. CASE ~(top > EMax)
    <3>1. t # EMax + 1
      BY <1>2, <1>4, <1>7, <2>7, <2>11
    <3>2. ~(top < EMin)
      BY <1>1, <1>2, <1>4, <2>7
    <3>3. PICK x \in Nat : x = top + EMax /\ x # 0 /\ x - 1 = k + 1
      <4>1. top + EMax = k + 2
        BY <1>2, <1>4, <1>5, <2>7
      <4>2. k + 2 \in Nat /\ k + 2 # 0 /\ (k + 2) - 1 = k + 1
        OBVIOUS
      <4>3. QED
        BY <4>1, <4>2
    <3>4. (h - h) * Pow2[(M - 1) - (M - 1)] = 0
      <4>1. (M - 1) - (M - 1) = 0 /\ h - h = 0
        BY <1>2
      <4>2. QED
        BY <4>1, PowersDouble
    <3>5. Patterned(r, u) = x * h + 0
      BY <2>8, <2>11, <3>2, <3>3, <3>4, Zenon
    <3>6. Unpacked(x * h + 0) = (h + 0) * Pow2[x - 1]
      BY <1>2, <1>3, <3>3, UnpackedNormal
    <3>7. h + 0 = h
      OBVIOUS
    <3>8. QED
      BY <2>9, <3>1, <3>3, <3>5, <3>6, <3>7, Zenon
  <2>12. QED
    BY <2>10, <2>11
<1>12. QED
  <2>1. r = 0 \/ (r # 0 /\ r < h) \/ (h <= r /\ r < Pow2[M]) \/ r = Pow2[M]
    BY <1>2, <1>3
  <2>2. QED
    BY <1>8, <1>9, <1>10, <1>11, <2>1

LEMMA OracleIs ==
  ASSUME NEW V \in Nat, V < Pow2[Longest], NEW e \in Int
  PROVE  Unpacked(RoundToBinary64(V, e)) = FloatOf(V, e)
<1>1. Unpacked(0) = 0
  BY UnpackedSubnormal, PowersPositive, FormatFacts
<1>2. CASE V = 0
  <2>1. RoundToBinary64(V, e) = 0 /\ FloatOf(V, e) = 0
    BY <1>2, Zenon DEF RoundToBinary64, FloatOf
  <2>2. QED
    BY <1>1, <2>1
<1>3. CASE V # 0
  <2>1. PICK t \in Int : t = Top(V, e)
    BY <1>3, TopIs
  <2>2. PICK u \in Int : u = OracleUlp(t)
    BY UlpIs
  <2>3. FloatOf(V, e) = IF t < SubnormalUlp - 1 THEN 0
                        ELSE IF t > EMax THEN Infinity
                        ELSE Rounded(V, e) * Pow2[u - SubnormalUlp]
    BY <1>3, <2>1, <2>2, Zenon DEF FloatOf
  <2>4. RoundToBinary64(V, e) = IF t < SubnormalUlp - 1 THEN 0
                                ELSE IF t > EMax + 1 THEN (2 * EMax + 1) * Pow2[MantBits - 1]
                                ELSE Patterned(Rounded(V, e), u)
    <3>1. PICK r : r = Rounded(V, e)
      OBVIOUS
    <3>2. r = LET shift    == u - e
                  quotient == IF shift <= 0 THEN V * Pow2[-shift] ELSE V \div Pow2[shift]
                  rest     == IF shift <= 0 THEN 0 ELSE V % Pow2[shift]
                  half     == IF shift <= 0 THEN 1 ELSE Pow2[shift - 1]
              IN  IF rest > half \/ (rest = half /\ quotient % 2 = 1)
                    THEN quotient + 1 ELSE quotient
      BY <2>1, <2>2, <3>1, Zenon DEF Rounded
    <3>3. t = BitLength(V) - 1 + e
      BY <2>1, Zenon DEF Top
    <3>4. QED
      BY <1>3, <2>2, <3>1, <3>2, <3>3, Zenon DEF RoundToBinary64, Patterned
  <2>5. CASE t < SubnormalUlp - 1
    BY <1>1, <2>3, <2>4, <2>5, Zenon
  <2>6. CASE t > EMax + 1
    <3>1. ~(t < SubnormalUlp - 1) /\ t > EMax
      BY <2>6, FormatFacts
    <3>2. QED
      BY <2>3, <2>4, <2>6, <3>1, InfiniteIs, Zenon
  <2>7. CASE ~(t < SubnormalUlp - 1) /\ ~(t > EMax + 1)
    <3>1. PICK q : IsRounding(V, e, u, q)
      <4>1. u = OracleUlp(Top(V, e))
        BY <2>1, <2>2
      <4>2. u <= e \/ e < u
        OBVIOUS
      <4>3. QED
        BY <1>3, <4>1, <4>2, RoundedUnshifted, RoundedShifted
    <3>2. /\ q \in Nat /\ q < Pow2[MantBits] /\ (u = SubnormalUlp \/ Pow2[MantBits - 1] <= q)
          /\ Rounded(V, e) = q \/ Rounded(V, e) = q + 1
      <4>1. PICK c \in Int : c <= e /\ c <= u
        <5>1. (u <= e \/ e <= u) /\ u <= u /\ e <= e
          OBVIOUS
        <5>2. QED
          BY <5>1
      <4>2. Rounded(V, e) = HalfEven(q, V * Pow2[e - c] - q * Pow2[u - c], Pow2[u - c])
        BY <3>1, <4>1, Zenon DEF IsRounding
      <4>3. \A l, w : HalfEven(q, l, w) = q \/ HalfEven(q, l, w) = q + 1
        BY Zenon DEF HalfEven
      <4>4. Rounded(V, e) = q \/ Rounded(V, e) = q + 1
        BY <4>2, <4>3, Zenon
      <4>5. QED
        BY <3>1, <4>4, Zenon DEF IsRounding
    <3>3. PICK r \in Nat : r = Rounded(V, e)
      BY <3>2
    <3>4. r <= Pow2[MantBits] /\ (u = SubnormalUlp \/ Pow2[MantBits - 1] <= r)
      BY <3>2, <3>3, PowersPositive, FormatFacts
    <3>5. SubnormalUlp - 1 <= t /\ (t = EMax + 1 \/ t <= EMax)
      BY <2>7, FormatFacts
    <3>6. /\ t = EMax + 1 => Unpacked(Patterned(r, u)) = Infinity
          /\ t <= EMax => Unpacked(Patterned(r, u)) = r * Pow2[u - SubnormalUlp]
      BY <2>2, <3>4, <3>5, UnpackedIs
    <3>7. (t = EMax + 1 => t > EMax) /\ (t <= EMax => ~(t > EMax))
      BY FormatFacts
    <3>8. QED
      BY <2>3, <2>4, <2>7, <3>3, <3>5, <3>6, <3>7, Zenon
  <2>8. QED
    BY <2>5, <2>6, <2>7
<1>4. QED
  BY <1>2, <1>3

(* A shift that does not underflow is by fewer places than there are bits, and
   the units are a significand or one more. *)
LEMMA UnitsFit ==
  ASSUME NEW m \in Nat, m # 0, m < Pow2[AccBits], m < Pow2[Longest], NEW more, NEW e \in Int,
         ~Underflows(m, e)
  PROVE  /\ Shift(m, e) <= AccBits /\ -Shift(m, e) < MantBits
         /\ Units(m, more, e) <= Pow2[MantBits]
<1>1. PICK b \in Nat : /\ b = BitLength(m) /\ b - 1 \in Nat /\ Top(m, e) = b - 1 + e
                       /\ Pow2[b - 1] <= m /\ m < Pow2[b] /\ Top(m, e) \in Int
  BY TopIs
<1>2. PICK t \in Int : t = Top(m, e) /\ t = b - 1 + e /\ ValueExp(m, e) = t
  BY <1>1 DEF ValueExp
<1>3. PICK u \in Int : u = OracleUlp(t) /\ UlpExp(m, e) = u
  BY <1>2, UlpIs DEF UlpExp, OracleUlp
<1>4. t - (MantBits - 1) <= u /\ (u = SubnormalUlp \/ u = t - (MantBits - 1))
  BY <1>3, UlpIs
<1>5. PICK sh \in Int : sh = u - e /\ Shift(m, e) = sh
  BY <1>3 DEF Shift
<1>6. SubnormalUlp - 1 <= t
  BY <1>2, FormatFacts DEF Underflows
<1>7. sh <= b /\ -sh < MantBits
  BY <1>1, <1>2, <1>4, <1>5, <1>6, FormatFacts
<1>8. b <= AccBits
  <2>1. AccBits <= b - 1 => Pow2[AccBits] <= Pow2[b - 1]
    BY <1>1, DigitFacts, PowersGrow
  <2>2. Pow2[AccBits] \in Nat /\ Pow2[b - 1] \in Nat
    BY <1>1, DigitFacts, PowersPositive
  <2>3. QED
    BY <1>1, <2>1, <2>2, DigitFacts
<1>9. u = OracleUlp(Top(m, e))
  BY <1>2, <1>3
<1>10. PICK N \in Nat : N = Pow2[MantBits]
  BY PowersPositive, FormatFacts
<1>11. CASE sh <= 0
  <2>1. u <= e /\ -sh = e - u
    BY <1>5, <1>11
  <2>2. IsRounding(m, e, u, m * Pow2[e - u])
    BY <1>9, <2>1, RoundedUnshifted
  <2>3. m * Pow2[e - u] \in Nat /\ m * Pow2[e - u] < N
    BY <1>10, <2>2, Zenon DEF IsRounding
  <2>4. Units(m, more, e) = m * Pow2[e - u]
    BY <1>5, <1>11, <2>1, Zenon DEF Units
  <2>5. PICK q \in Nat : q = m * Pow2[e - u] /\ q < N
    BY <2>3, Zenon
  <2>6. Units(m, more, e) <= N
    BY <2>4, <2>5
  <2>7. QED
    BY <1>5, <1>7, <1>8, <1>10, <2>6, DigitFacts
<1>12. CASE ~(sh <= 0)
  <2>1. e < u /\ u - e = sh
    BY <1>5, <1>12
  <2>2. IsRounding(m, e, u, m \div Pow2[u - e])
    BY <1>9, <2>1, RoundedShifted
  <2>3. PICK q \in Nat : q = m \div Pow2[sh] /\ q < N
    BY <1>10, <2>1, <2>2, Zenon DEF IsRounding
  <2>4. Units(m, more, e) = q \/ Units(m, more, e) = q + 1
    BY <1>5, <1>12, <2>3, Zenon DEF Units
  <2>5. Units(m, more, e) <= N
    BY <2>3, <2>4
  <2>6. QED
    BY <1>5, <1>7, <1>8, <1>10, <2>5, DigitFacts
<1>13. QED
  BY <1>11, <1>12

(* No integer that roundToF64 narrows is out of range, for any digits and any
   exponent: with 128 bits and 53, the shifts fit in eight bits and the
   significand in 64. *)
LEMMA RoundingAlwaysFits ==
  ASSUME HexInv, NEW p \in Powers
  PROVE  RoundingFits(mantissa, sticky, Exp2(p))
<1> SUFFICES ASSUME mantissa # 0, ~Overflows(mantissa, Exp2(p)), ~Underflows(mantissa, Exp2(p))
    PROVE  /\ Shift(mantissa, Exp2(p)) <= AccBits /\ -Shift(mantissa, Exp2(p)) < MantBits
           /\ Units(mantissa, sticky, Exp2(p)) <= Pow2[MantBits]
  BY Zenon DEF RoundingFits
<1>1. p \in Int
  BY HexAssumption DEF HexAssumption
<1>2. PICK m \in Nat : m = mantissa /\ m < Pow2[AccBits]
  BY DEF HexInv
<1>3. m < Pow2[Longest]
  BY <1>2, ExactFits
<1>4. Exp2(p) \in Int
  BY <1>1, PlacesFit, ClampedIs DEF Exp2, Places
<1>5. QED
  BY <1>2, <1>3, <1>4, UnitsFit

(* No 32-bit integer of the exponent overflows, for any exponent written and
   as many digits as HexAssumption leaves room for. *)
LEMMA ExponentAlwaysFits ==
  ASSUME HexInv, NEW p \in Powers
  PROVE  ExponentFits(p)
<1> SUFFICES ASSUME mantissa # 0
    PROVE  {fracDigits, droppedDigits, -(DigitBits * fracDigits), DigitBits * droppedDigits,
            Places, Clamped(p), Exp2(p), Exp2(p) + BitLength(mantissa),
            ValueExp(mantissa, Exp2(p))} \subseteq I32
  BY Zenon DEF ExponentFits
<1>1. p \in Int
  BY HexAssumption DEF HexAssumption
<1>2. PICK L \in Nat, f \in Nat, n \in Nat :
             /\ L = DigitBits * MaxDigits /\ f = DigitBits * fracDigits
             /\ n = DigitBits * droppedDigits /\ f <= L /\ n <= L
  BY PlacesFit
<1>3. fracDigits \in 0 .. L /\ droppedDigits \in 0 .. L
  BY <1>2, PlacesFit
<1>4. PICK c \in Int : c = Clamped(p) /\ -ExpCap <= c /\ c <= ExpCap
  BY <1>1, ClampedIs
<1>5. PICK b \in Nat : b = BitLength(mantissa) /\ 1 <= b + n /\ b + n <= L
  BY <1>2, LeadingBit
<1>6. L + ExpCap < IntLimit /\ ExpCap \in Nat /\ IntLimit \in Nat
  BY <1>2, HexAssumption DEF HexAssumption
<1>7. Places = -f + n /\ Exp2(p) = -f + n + c
  BY <1>2, <1>4 DEF Places, Exp2
<1>8. Exp2(p) + BitLength(mantissa) = -f + n + c + b
      /\ ValueExp(mantissa, Exp2(p)) = -f + n + c + b - 1
  BY <1>5, <1>7 DEF ValueExp
<1>9. -f \in I32 /\ n \in I32 /\ fracDigits \in I32 /\ droppedDigits \in I32
  BY <1>2, <1>3, <1>6 DEF I32
<1>10. c \in I32 /\ Places \in I32 /\ Exp2(p) \in I32
  BY <1>2, <1>4, <1>6, <1>7 DEF I32
<1>11. Exp2(p) + BitLength(mantissa) \in I32 /\ ValueExp(mantissa, Exp2(p)) \in I32
  BY <1>2, <1>4, <1>5, <1>6, <1>8 DEF I32
<1>12. QED
  BY <1>2, <1>4, <1>9, <1>10, <1>11

(***************************************************************************)
(* Whatever the exponent written, and the digits, as many as the 32 bits   *)
(* of the exponent have room for (HexAssumption), whatever the sizes of    *)
(* the format and of the accumulator: the float parseHexFloat gives is the *)
(* one nearest to the literal, ties to even; round_to_binary64 gives the   *)
(* same; no 32-bit sum or product of the exponent overflows, holding it at *)
(* the cap changes nothing, and every integer narrowed in the rounding     *)
(* fits.                                                                   *)
(***************************************************************************)
THEOREM HexFloatsAreRight == HexSpec => []HexFloatsRoundToNearest
<1>1. HexInv => HexFloatsRoundToNearest
  <2> SUFFICES ASSUME HexInv, NEW p \in Powers
      PROVE  /\ ExponentFits(p) /\ RoundingFits(mantissa, sticky, Exp2(p))
             /\ IsNearest(Converted(p), exact, p - DigitBits * fracDigits)
             /\ Unpacked(RoundToBinary64(exact, p - DigitBits * fracDigits)) = Converted(p)
    BY DEF HexFloatsRoundToNearest
  <2>1. p \in Int
    BY HexAssumption DEF HexAssumption
  <2>2. PICK e \in Int : e = p - DigitBits * fracDigits
    <3>1. PICK f \in Nat : f = DigitBits * fracDigits
      BY DigitFacts DEF HexInv
    <3>2. QED
      BY <2>1, <3>1
  <2>3. exact \in Nat /\ exact < Pow2[Longest]
    BY ExactFits
  <2>4. Converted(p) = FloatOf(exact, e)
    BY <2>1, <2>2, PortIs, ClampedAlike
  <2>5. ExponentFits(p) /\ RoundingFits(mantissa, sticky, Exp2(p))
    BY RoundingAlwaysFits, ExponentAlwaysFits
  <2>6. QED
    BY <2>2, <2>3, <2>4, <2>5, FloatOfIsNearest, OracleIs
<1>2. QED
  BY <1>1, HexInvHolds, PTL
=============================================================================
