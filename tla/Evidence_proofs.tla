--------------------------- MODULE Evidence_proofs ---------------------------
(***************************************************************************)
(* What the scripts that produce the project's evidence promise, for any   *)
(* number of steps, of cases and mutants, of corpora and modes, and for    *)
(* files of Zig of any length.                                             *)
(***************************************************************************)
EXTENDS VerifyPipeline, MutationTest, TranscriptSweeps, SuiteReports, PublicCopy,
        SafetyInventory, Programs_proofs, FiniteSetTheorems, TLAPS

-----------------------------------------------------------------------------
(***************************************************************************)
(* make verify.  While it runs, the steps already taken are good and their *)
(* artifacts hold what the present code gives; nothing but a step of the   *)
(* pipeline touches either until the verdict.                              *)
(***************************************************************************)
Fine(e) == code[e] # "bad" /\ (e # "fuzz" => artifact[e] = Measured(code[e]))

PipeInv ==
  /\ stepNo \in Nat
  /\ DOMAIN artifact = Evidence
  /\ pipePc # "idle" => verdict = "none"
  /\ pipePc = "run" => \A i \in 1 .. Len(Steps) : i < stepNo => Fine(Steps[i])
  /\ pipePc = "claims" => \A e \in ToSet(Steps) : Fine(e)
  /\ VerifiedMeansClaimed

LEMMA StepsFacts ==
  /\ Len(Steps) \in Nat
  /\ \A e \in ToSet(Steps) : \E i \in 1 .. Len(Steps) : e = Steps[i]
  /\ \A i \in 1 .. Len(Steps) : Steps[i] \in Evidence
  /\ ToSet(Steps) \subseteq Evidence
BY PipelineAssumption DEF PipelineAssumption, ToSet, Evidence

LEMMA PipeInvInit == PipeInit => PipeInv
BY DEF PipeInit, PipeInv, VerifiedMeansClaimed

LEMMA PipeInvKept == PipeInv /\ [PipeNext]_pipeVars => PipeInv'
<1> SUFFICES ASSUME PipeInv, [PipeNext]_pipeVars PROVE PipeInv'
  OBVIOUS
<1>1. CASE Edit \/ Restate
  BY <1>1 DEF Edit, Restate, ByHand, Stale, PipeInv, VerifiedMeansClaimed
<1>2. CASE Target
  <2>1. DOMAIN artifact' = Evidence /\ UNCHANGED <<pipePc, stepNo, code, text, verdict>>
    BY <1>2 DEF Target, Gather, PipeInv
  <2>2. QED
    BY <1>2, <2>1 DEF Target, ByHand, PipeInv, VerifiedMeansClaimed
<1>3. CASE StartVerify
  BY <1>3 DEF StartVerify, PipeInv, VerifiedMeansClaimed
<1>4. CASE RunStep
  <2> DEFINE e == Steps[stepNo]
  <2>1. /\ pipePc = "run" /\ stepNo <= Len(Steps) /\ Gather(e, "verify")
        /\ UNCHANGED <<code, text>>
    BY <1>4 DEF RunStep
  <2>2. /\ e # "fuzz" /\ e \in Evidence => artifact'[e] = Measured(code[e])
        /\ \A d \in Evidence : d # e => artifact'[d] = artifact[d]
        /\ DOMAIN artifact' = Evidence
    <3> HIDE DEF e
    <3>1. CASE e = "fuzz"
      BY <2>1, <3>1 DEF Gather, PipeInv
    <3>2. CASE e # "fuzz"
      <4>1. artifact' = [artifact EXCEPT ![e] = Measured(code[e])]
        BY <2>1, <3>2 DEF Gather
      <4>2. QED
        BY <4>1 DEF PipeInv
    <3>3. QED
      BY <3>1, <3>2
  <2>3. CASE code[e] = "bad"
    BY <1>4, <2>2, <2>3 DEF RunStep, PipeInv, VerifiedMeansClaimed
  <2>4. CASE code[e] # "bad"
    <3>1. pipePc' = "run" /\ stepNo' = stepNo + 1 /\ verdict' = "none"
      BY <1>4, <2>1, <2>4 DEF RunStep, PipeInv
    <3>2. ASSUME NEW i \in 1 .. Len(Steps), i < stepNo' PROVE Fine(Steps[i])'
      <4>1. i < stepNo \/ i = stepNo
        BY <3>1, <3>2, StepsFacts DEF PipeInv
      <4>2. CASE Steps[i] = e
        BY <2>1, <2>2, <2>4, <4>2, StepsFacts DEF Fine
      <4>3. CASE Steps[i] # e
        BY <2>1, <2>2, <4>1, <4>3, StepsFacts DEF Fine, PipeInv
      <4>4. QED
        BY <4>2, <4>3
    <3>3. QED
      BY <2>2, <3>1, <3>2 DEF PipeInv, VerifiedMeansClaimed
  <2>5. QED
    BY <2>3, <2>4
<1>5. CASE WriteReport
  <2>1. /\ pipePc = "run" /\ ~(stepNo <= Len(Steps)) /\ pipePc' = "claims"
        /\ UNCHANGED <<stepNo, code, text, verdict>>
    BY <1>5, StepsFacts DEF WriteReport, PipeInv
  <2>2. /\ DOMAIN artifact' = Evidence
        /\ \A e \in Evidence : e # "fuzz" => artifact'[e] = artifact[e]
    BY <1>5 DEF WriteReport
  <2>3. ASSUME NEW e \in ToSet(Steps) PROVE Fine(e)'
    <3>1. PICK i \in 1 .. Len(Steps) : e = Steps[i]
      BY StepsFacts
    <3>2. Fine(e)
      BY <2>1, <3>1, StepsFacts DEF PipeInv
    <3>3. QED
      BY <2>1, <2>2, <3>2, StepsFacts DEF Fine
  <2>4. QED
    BY <2>1, <2>2, <2>3 DEF PipeInv, VerifiedMeansClaimed
<1>6. CASE CheckClaims
  <2>1. /\ pipePc = "claims" /\ pipePc' = "idle" /\ stepNo' = 0
        /\ UNCHANGED <<code, artifact, text>>
        /\ verdict' = "ok" => Audits
    BY <1>6 DEF CheckClaims
  <2>2. ASSUME verdict' = "ok", NEW e \in ToSet(Steps)
        PROVE  code[e] # "bad" /\ (e # "fuzz" => text[e] = code[e])
    <3>1. Fine(e) /\ e \in Evidence
      BY <2>1, StepsFacts DEF PipeInv
    <3>2. artifact[e].figure = text[e]
      BY <2>1, <2>2, <3>1 DEF Audits
    <3>3. QED
      BY <3>1, <3>2 DEF Fine, Measured
  <2>3. QED
    BY <2>1, <2>2 DEF PipeInv, VerifiedMeansClaimed
<1>7. CASE Interrupt
  BY <1>7 DEF Interrupt, PipeInv, VerifiedMeansClaimed
<1>8. CASE UNCHANGED pipeVars
  BY <1>8 DEF pipeVars, PipeInv, Fine, VerifiedMeansClaimed
<1>9. QED
  BY <1>1, <1>2, <1>3, <1>4, <1>5, <1>6, <1>7, <1>8 DEF PipeNext

(***************************************************************************)
(* VERIFY OK means what the claims state of the steps make verify takes,   *)
(* the fuzzer's figure apart, however many there are and whatever was run, *)
(* edited or interrupted before.  Evidence from elsewhere is not covered.  *)
(***************************************************************************)
THEOREM VerifyIsHonest == PipeSpec => []VerifiedMeansClaimed
<1>1. PipeInv => VerifiedMeansClaimed
  BY DEF PipeInv
<1>2. QED
  BY <1>1, PipeInvInit, PipeInvKept, PTL DEF PipeSpec

-----------------------------------------------------------------------------
(***************************************************************************)
(* Mutation testing.  An expectation is the original's transcript at a     *)
(* point where it is defined, as far as a sanitizer tells; a catch is a    *)
(* transcript that the detector tells from it, or none in time.            *)
(***************************************************************************)
MutationInv ==
  /\ DOMAIN point = 1 .. Cardinality(DOMAIN point) /\ Cardinality(DOMAIN point) \in Nat
  /\ \A f \in DOMAIN point : point[f] \in Points
  /\ \A f \in DOMAIN expected :
       f \in DOMAIN point /\ Comparable(point[f]) /\ expected[f] = point[f].c.out
  /\ \A d \in DOMAIN shown :
       /\ shown[d].at \in DOMAIN expected
       /\ shown[d].got = Hung \/ Detect(expected[shown[d].at], shown[d].got)

LEMMA MutationInvInit == MutationInit => MutationInv
<1> SUFFICES ASSUME MutationInit PROVE MutationInv
  OBVIOUS
<1>1. DOMAIN point = {} /\ DOMAIN expected = {} /\ DOMAIN shown = {}
  BY DEF MutationInit
<1>2. Cardinality({}) = 0 /\ 1 .. 0 = {}
  BY FS_EmptySet
<1>3. QED
  BY <1>1, <1>2 DEF MutationInv

LEMMA OracleKeeps == MutationInv /\ Oracle => MutationInv'
<1> SUFFICES ASSUME MutationInv, Oracle PROVE MutationInv'
  OBVIOUS
<1> DEFINE n == Cardinality(DOMAIN point)
<1>1. n \in Nat /\ DOMAIN point = 1 .. n
  BY DEF MutationInv
<1>2. PICK p \in Points :
        /\ point' = [i \in 1 .. n + 1 |-> IF i = n + 1 THEN p ELSE point[i]]
        /\ expected' = IF Comparable(p)
                         THEN [i \in DOMAIN expected \union {n + 1} |->
                                 IF i = n + 1 THEN p.c.out ELSE expected[i]]
                         ELSE expected
  BY DEF Oracle
<1>3. UNCHANGED shown
  BY DEF Oracle
<1> HIDE DEF n
<1>4. DOMAIN point' = 1 .. n + 1 /\ Cardinality(1 .. n + 1) = n + 1 /\ n + 1 \in Nat
  <2>1. DOMAIN point' = 1 .. n + 1
    BY <1>2
  <2>2. 1 \in Int /\ n + 1 \in Int /\ ~(1 > n + 1) /\ (n + 1) - 1 + 1 = n + 1
    BY <1>1
  <2>3. Cardinality(1 .. n + 1) = n + 1
    BY <2>2, FS_Interval
  <2>4. QED
    BY <1>1, <2>1, <2>3
<1>5. \A f \in DOMAIN point : point'[f] = point[f] /\ f # n + 1 /\ f \in 1 .. n + 1
  BY <1>1, <1>2
<1>6. point'[n + 1] = p /\ n + 1 \in 1 .. n + 1
  BY <1>1, <1>2
<1>7. \A f \in DOMAIN point' : point'[f] \in Points
  <2>1. \A f \in 1 .. n + 1 : f = n + 1 \/ f \in DOMAIN point
    BY <1>1
  <2>2. QED
    BY <1>4, <1>5, <1>6, <2>1 DEF MutationInv
<1>8. \A f \in DOMAIN expected : f \in DOMAIN point /\ expected'[f] = expected[f] /\ f \in DOMAIN expected'
  BY <1>2, <1>5 DEF MutationInv
<1>9. ASSUME NEW f \in DOMAIN expected'
      PROVE  f \in DOMAIN point' /\ Comparable(point'[f]) /\ expected'[f] = point'[f].c.out
  <2>1. CASE f \in DOMAIN expected
    BY <1>4, <1>5, <1>8, <2>1 DEF MutationInv
  <2>2. CASE f \notin DOMAIN expected
    BY <1>2, <1>4, <1>6, <1>9, <2>2
  <2>3. QED
    BY <2>1, <2>2
<1>10. \A d \in DOMAIN shown :
         /\ shown[d].at \in DOMAIN expected'
         /\ shown[d].got = Hung \/ Detect(expected'[shown[d].at], shown[d].got)
  BY <1>8 DEF MutationInv
<1>11. QED
  BY <1>3, <1>4, <1>7, <1>9, <1>10 DEF MutationInv, Comparable

LEMMA MutationInvKept == MutationInv /\ [MutationNext]_mutationVars => MutationInv'
<1> SUFFICES ASSUME MutationInv, [MutationNext]_mutationVars PROVE MutationInv'
  OBVIOUS
<1>1. CASE Oracle
  BY <1>1, OracleKeeps
<1>2. CASE UNCHANGED <<point, expected, shown>>
  BY <1>2 DEF MutationInv, Comparable, Detect
<1>3. CASE RunMutant
  <2>1. PICK f \in DOMAIN expected, got \in UNION {{point[g].port, Hung} \union Altered : g \in DOMAIN expected} :
          \/ UNCHANGED shown
          \/ /\ got = Hung \/ Detect(expected[f], got)
             /\ shown' = [d \in DOMAIN shown \union {defect} |->
                            IF d = defect THEN [at |-> f, got |-> got] ELSE shown[d]]
    BY <1>3 DEF RunMutant
  <2>2. UNCHANGED <<point, expected>>
    BY <1>3 DEF RunMutant
  <2>3. \A d \in DOMAIN shown' :
          /\ shown'[d].at \in DOMAIN expected
          /\ shown'[d].got = Hung \/ Detect(expected[shown'[d].at], shown'[d].got)
    BY <2>1 DEF MutationInv
  <2>4. QED
    BY <2>2, <2>3 DEF MutationInv
<1>4. QED
  BY <1>1, <1>2, <1>3
     DEF MutationNext, BeginMutants, Build, Survive, ReportMutants, mutationVars

(* No detector tells a transcript from itself. *)
LEMMA DetectorsTell == ASSUME NEW a PROVE ~Detect(a, a)
BY MutationAssumption
   DEF MutationAssumption, Detect, DetectFull, DetectEventOnly, DetectRecordCount, DetectFirstRecord

(***************************************************************************)
(* With any detector, no mutant is caught at a case where a sanitizer has  *)
(* reported the original, and one that did there what the port does is     *)
(* caught only where the port itself differs from the original.            *)
(***************************************************************************)
THEOREM MutantsAreCaughtFairly == MutationSpec => []CaughtByTheDefect
<1>1. ASSUME MutationInv PROVE CaughtByTheDefect
  <2>1. SUFFICES ASSUME NEW d \in DOMAIN shown
                 PROVE  /\ point[shown[d].at].san # "report"
                        /\ shown[d].got = point[shown[d].at].port =>
                             point[shown[d].at].port # point[shown[d].at].c.out
    BY DEF CaughtByTheDefect
  <2> DEFINE p == point[shown[d].at]
  <2>2. /\ p \in Points /\ Comparable(p)
        /\ shown[d].got = Hung \/ Detect(p.c.out, shown[d].got)
    BY <1>1 DEF MutationInv
  <2> HIDE DEF p
  <2>3. p.san # "report"
    BY <2>2 DEF Comparable, UpstreamHasUb
  <2>4. shown[d].got = p.port => p.port # p.c.out
    BY <2>2, DetectorsTell, MutationAssumption DEF MutationAssumption
  <2>5. QED
    BY <2>3, <2>4 DEF p
<1>2. QED
  BY <1>1, MutationInvInit, MutationInvKept, PTL DEF MutationSpec

-----------------------------------------------------------------------------
(***************************************************************************)
(* Sweeps.  Until its end a script has exited in no way; what the port     *)
(* shows on the fixtures is among all it shows; and a broken rule is in    *)
(* the results.                                                            *)
(***************************************************************************)
SweepInv ==
  /\ runAt \in Nat \ {0}
  /\ DOMAIN perImpl = {"c", "zig"} /\ DOMAIN results = {"c", "zig"}
  /\ onFixtures \subseteq perImpl.zig
  /\ broke => results.c \union results.zig # {}
  /\ sweepPc = "coverage" => coverageExit # "clean"
  /\ sweepExit = "clean" => sweepPc = "done"
  /\ SweepsAreHonest

LEMMA SweepInvInit == SweepInit => SweepInv
BY DEF SweepInit, SweepInv, SweepsAreHonest, CoverageIsHonest, FixturesSuffice, SweepReportsAll

LEMMA SweepInvKept == SweepInv /\ [SweepNext]_sweepVars => SweepInv'
<1> SUFFICES ASSUME SweepInv, [SweepNext]_sweepVars PROVE SweepInv'
  OBVIOUS
<1> USE DEF SweepsAreHonest, CoverageIsHonest, FixturesSuffice, SweepReportsAll
<1>1. CASE NoCorpus \/ OtherMode \/ SkipOom
  BY <1>1 DEF NoCorpus, OtherMode, SkipOom, SweepInv
<1>2. CASE WalkRun
  <2>1. CASE UNCHANGED <<runAt, perImpl, onFixtures>>
    BY <1>2, <2>1 DEF WalkRun, SweepInv
  <2>2. CASE \E seen \in SUBSET (Transitions \union Strays) :
               /\ perImpl' = [perImpl EXCEPT ![This.program] = @ \union seen]
               /\ onFixtures' = IF This.corpus = "fixtures" /\ This.program = "zig"
                                  THEN onFixtures \union seen ELSE onFixtures
               /\ runAt' = runAt + 1
    <3>1. DOMAIN perImpl' = {"c", "zig"} /\ onFixtures' \subseteq perImpl'.zig
      BY <2>2 DEF SweepInv
    <3>2. QED
      BY <1>2, <2>2, <3>1 DEF WalkRun, SweepInv
  <2>3. QED
    BY <1>2, <2>1, <2>2 DEF WalkRun
<1>3. CASE EndCoverage
  <2>1. coverageExit' = "clean" => perImpl.c \union perImpl.zig \subseteq Transitions
                                    /\ onFixtures = Transitions
    BY <1>3 DEF EndCoverage, CoverageFails, Unspecified, OnlyC, OnlyZig, UncoveredByFixtures, SweepInv
  <2>2. QED
    BY <1>3, <2>1 DEF EndCoverage, SweepInv
<1>4. CASE CheckRun
  <2>1. CASE UNCHANGED <<runAt, results, broke>>
    BY <1>4, <2>1 DEF CheckRun, SweepInv
  <2>2. CASE \E breaks \in BOOLEAN :
               /\ broke' = (broke \/ breaks)
               /\ results' = IF breaks
                    THEN [results EXCEPT ![This.program] = @ \union {<<This.corpus, This.mode>>}]
                    ELSE results
               /\ runAt' = runAt + 1
    <3>1. This.program \in {"c", "zig"}
      BY <1>4, SweepAssumption DEF CheckRun, Here, More, This, SweepAssumption, SweepInv
    <3>2. DOMAIN results' = {"c", "zig"} /\ (broke' => results'.c \union results'.zig # {})
      <4>1. PICK breaks \in BOOLEAN :
              /\ broke' = (broke \/ breaks)
              /\ results' = IF breaks
                   THEN [results EXCEPT ![This.program] = @ \union {<<This.corpus, This.mode>>}]
                   ELSE results
        BY <2>2
      <4>2. CASE breaks
        <5>1. /\ DOMAIN results' = {"c", "zig"}
              /\ <<This.corpus, This.mode>> \in results'[This.program]
          BY <3>1, <4>1, <4>2 DEF SweepInv
        <5>2. QED
          BY <3>1, <5>1
      <4>3. CASE ~breaks
        BY <4>1, <4>3 DEF SweepInv
      <4>4. QED
        BY <4>2, <4>3
    <3>3. QED
      BY <1>4, <2>2, <3>2 DEF CheckRun, SweepInv
  <2>3. QED
    BY <1>4, <2>1, <2>2 DEF CheckRun
<1>5. CASE EndSweep
  BY <1>5 DEF EndSweep, SweepFails, SweepInv
<1>6. CASE UNCHANGED sweepVars
  BY <1>6 DEF sweepVars, SweepInv
<1>7. QED
  BY <1>1, <1>2, <1>3, <1>4, <1>5, <1>6 DEF SweepNext

(***************************************************************************)
(* The sweeps pass only on what they are meant to show, for any corpora,   *)
(* modes and transitions.                                                  *)
(***************************************************************************)
THEOREM SweepsArePassedHonestly == SweepSpec => []SweepsAreHonest
<1>1. SweepInv => SweepsAreHonest
  BY DEF SweepInv
<1>2. QED
  BY <1>1, SweepInvInit, SweepInvKept, PTL DEF SweepSpec

-----------------------------------------------------------------------------
(***************************************************************************)
(* The suite reports.  The cases done are the first ones of the suite, and *)
(* each is told of as its script means to: what is not counted against the *)
(* port is a case it passed, and what conforms is an answer.               *)
(***************************************************************************)
Ends == {"accepts", "rejects", "crash", "hang"}

ToldInTests(i) == did[i].c # did[i].zig => <<"zig", i>> \in rows

ToldInConformance(i) ==
  /\ did[i].kind \in {"y", "n", "i", "other"} /\ did[i].c \in Ends /\ did[i].zig \in Ends
  /\ did[i].kind # "other" /\ <<"zig", i>> \notin rows => Accepted(did[i].c) = Accepted(did[i].zig)
  /\ did[i].kind # "other" /\ i \in conforming => Conforms(did[i].kind, Accepted(did[i].c))

ToldInHexfloat(i) ==
  did[i].oracle # "ValueError" /\ probed /\ <<"zig", i>> \notin rows => did[i].zig = did[i].oracle

NotedTruly(i) ==
  /\ script = "tests" => ToldInTests(i)
  /\ script = "conformance" => ToldInConformance(i)
  /\ script = "hexfloat" => ToldInHexfloat(i)

ReportInv ==
  /\ DOMAIN did = 1 .. Cardinality(DOMAIN did) /\ Cardinality(DOMAIN did) \in Nat
  /\ conforming \subseteq DOMAIN did
  /\ told \in [Backend -> SUBSET Assertions]
  /\ reportPc = "idle" => DOMAIN did = {}
  /\ reportPc # "ended" => reportExit = "none"
  /\ \A i \in DOMAIN did : NotedTruly(i)
  /\ ReportsAreHonest

LEMMA ReportInvInit == ReportInit => ReportInv
<1> SUFFICES ASSUME ReportInit PROVE ReportInv
  OBVIOUS
<1>1. /\ DOMAIN did = {} /\ conforming = {} /\ reportExit = "none"
  BY DEF ReportInit
<1>2. Cardinality({}) = 0 /\ 1 .. 0 = {}
  BY FS_EmptySet
<1>3. ReportsAreHonest
  BY <1>1 DEF ReportsAreHonest, TestsPassedByThePort, DocumentsAgreedOn, BitsAreTheReference, Clean
<1>4. told \in [Backend -> SUBSET Assertions]
  BY DEF ReportInit
<1>5. QED
  BY <1>1, <1>2, <1>3, <1>4 DEF ReportInv

(* A case more leaves the others as they were. *)
LEMMA NotedNext ==
  ASSUME ReportInv, NEW d, Noted(d)
  PROVE  /\ DOMAIN did' = DOMAIN did \union {Upcoming} /\ Upcoming \notin DOMAIN did
         /\ DOMAIN did' = 1 .. Cardinality(DOMAIN did') /\ Cardinality(DOMAIN did') \in Nat
         /\ did'[Upcoming] = d /\ \A i \in DOMAIN did : did'[i] = did[i]
<1> DEFINE n == Cardinality(DOMAIN did)
<1>1. n \in Nat /\ DOMAIN did = 1 .. n /\ Upcoming = n + 1
  BY DEF ReportInv, Upcoming
<1>2. did' = [i \in 1 .. n + 1 |-> IF i = n + 1 THEN d ELSE did[i]]
  BY <1>1 DEF Noted
<1> HIDE DEF n
<1>3. DOMAIN did' = 1 .. n + 1 /\ n + 1 \in 1 .. n + 1 /\ n + 1 \notin 1 .. n
  BY <1>1, <1>2
<1>4. \A i \in 1 .. n : i \in 1 .. n + 1 /\ i # n + 1
  BY <1>1
<1>5. Cardinality(1 .. n + 1) = n + 1 /\ n + 1 \in Nat
  <2>1. 1 \in Int /\ n + 1 \in Int /\ ~(1 > n + 1) /\ (n + 1) - 1 + 1 = n + 1
    BY <1>1
  <2>2. QED
    BY <1>1, <2>1, FS_Interval
<1>6. 1 .. n + 1 = 1 .. n \union {n + 1}
  BY <1>1
<1>7. QED
  BY <1>1, <1>2, <1>3, <1>4, <1>5, <1>6

(* The report has not been made while its cases are still being done. *)
LEMMA StillRunning ==
  ASSUME ReportInv, reportPc = "run", UNCHANGED reportExit
  PROVE  reportExit = "none" /\ ReportsAreHonest'
BY DEF ReportInv, ReportsAreHonest, TestsPassedByThePort, DocumentsAgreedOn, BitsAreTheReference, Clean

LEMMA ReportInvKept == ReportInv /\ [ReportsNext]_reportVars => ReportInv'
<1> SUFFICES ASSUME ReportInv, [ReportsNext]_reportVars PROVE ReportInv'
  OBVIOUS
<1>1. CASE UNCHANGED reportVars
  BY <1>1 DEF reportVars, ReportInv, NotedTruly, ToldInTests, ToldInConformance, ToldInHexfloat,
       ReportsAreHonest, TestsPassedByThePort, DocumentsAgreedOn, BitsAreTheReference, Clean,
       PassedTests, PerTest, GivesTheBits
<1>2. CASE Unbuilt
  BY <1>2 DEF Unbuilt, ReportInv, NotedTruly, ToldInTests, ToldInConformance, ToldInHexfloat,
       ReportsAreHonest, TestsPassedByThePort, DocumentsAgreedOn, BitsAreTheReference, Clean
<1>3. CASE RunAssertions \/ StartSuite \/ StartLiterals
  <2>1. /\ reportPc = "idle" /\ reportPc' \in {"run", "raised"} /\ DOMAIN did = {}
        /\ UNCHANGED <<did, conforming, reportExit>> /\ told' \in [Backend -> SUBSET Assertions]
    BY <1>3 DEF RunAssertions, StartSuite, StartLiterals, Begins, ReportInv
  <2>2. QED
    BY <2>1 DEF ReportInv, ReportsAreHonest, TestsPassedByThePort, DocumentsAgreedOn,
                BitsAreTheReference, Clean
<1>4. CASE SkipSuite
  <2>1. /\ reportPc' = "ended" /\ script' = "conformance" /\ DOMAIN did = {}
        /\ UNCHANGED <<did, conforming, told>>
    BY <1>4 DEF SkipSuite, Begins, ReportInv
  <2>2. QED
    BY <2>1 DEF ReportInv, ReportsAreHonest, TestsPassedByThePort, DocumentsAgreedOn,
                BitsAreTheReference, Clean
<1>5. CASE CompareTools
  <2>1. PICK c \in {"A", "B", "hang"}, z \in {"A", "B", "hang"} :
          /\ Noted([c |-> c, zig |-> z])
          /\ rows' = IF c # z THEN rows \union {<<"zig", Upcoming>>} ELSE rows
          /\ reportPc' = IF "hang" \in {c, z} THEN "raised" ELSE reportPc
    BY <1>5 DEF CompareTools
  <2>2. reportPc = "run" /\ script = "tests" /\ UNCHANGED <<script, conforming, told, reportExit>>
    BY <1>5 DEF CompareTools, Running
  <2>3. \A i \in DOMAIN did' : ToldInTests(i)'
    BY <2>1, <2>2, NotedNext DEF ReportInv, NotedTruly, ToldInTests
  <2>4. QED
    BY <2>1, <2>2, <2>3, NotedNext, StillRunning DEF ReportInv, NotedTruly
<1>6. CASE Judge
  <2>1. PICK m : m = Upcoming
    OBVIOUS
  <2>2. PICK kind \in {"y", "n", "i", "other"}, c \in Ends, z \in Ends :
          /\ Noted([kind |-> kind, c |-> c, zig |-> z])
          /\ IF kind = "other" THEN UNCHANGED <<rows, conforming>>
             ELSE /\ rows' = IF Accepted(c) = Accepted(z) THEN rows
                                                          ELSE rows \union {<<"zig", Upcoming>>}
                  /\ conforming' = IF Conforms(kind, Accepted(c)) THEN conforming \union {Upcoming}
                                                                  ELSE conforming
    BY <1>6 DEF Judge, Ends
  <2>3. /\ reportPc = "run" /\ script = "conformance"
        /\ UNCHANGED <<script, told, reportPc, reportExit>>
    BY <1>6 DEF Judge, Running
  <2>4. m \notin conforming
    BY <2>1, <2>2, NotedNext DEF ReportInv
  <2>5. rows \subseteq rows' /\ \A i : i # m => (i \in conforming' <=> i \in conforming)
    BY <2>1, <2>2
  <2>6. ToldInConformance(m)'
    <3>1. did'[m].kind = kind /\ did'[m].c = c /\ did'[m].zig = z
      BY <2>1, <2>2, NotedNext
    <3>2. QED
      BY <2>1, <2>2, <2>4, <3>1 DEF ToldInConformance
  <2>7. ASSUME NEW i \in DOMAIN did PROVE ToldInConformance(i)'
    <3>1. did'[i] = did[i] /\ i # m
      BY <2>1, <2>2, NotedNext
    <3>2. ToldInConformance(i)
      BY <2>3 DEF ReportInv, NotedTruly
    <3>3. QED
      BY <2>5, <3>1, <3>2 DEF ToldInConformance
  <2>8. DOMAIN did' = DOMAIN did \union {m} /\ conforming' \subseteq DOMAIN did'
    BY <2>1, <2>2, NotedNext DEF ReportInv
  <2>9. QED
    BY <2>2, <2>3, <2>6, <2>7, <2>8, NotedNext, StillRunning DEF ReportInv, NotedTruly
<1>7. CASE CompareBits
  <2>1. PICK oracle \in {"A", "B", "ValueError"}, c \in {"A", "B"}, z \in {"A", "B"} :
          /\ Noted([oracle |-> oracle, c |-> c, zig |-> z])
          /\ rows \subseteq rows'
          /\ oracle # "ValueError" /\ probed /\ z # oracle => <<"zig", Upcoming>> \in rows'
    BY <1>7 DEF CompareBits, Wrong
  <2>2. /\ reportPc = "run" /\ script = "hexfloat"
        /\ UNCHANGED <<script, told, reportPc, conforming, probed, reportExit>>
    BY <1>7 DEF CompareBits, Running
  <2>3. \A i \in DOMAIN did' : ToldInHexfloat(i)'
    BY <2>1, <2>2, NotedNext DEF ReportInv, NotedTruly, ToldInHexfloat
  <2>4. QED
    BY <2>1, <2>2, <2>3, NotedNext, StillRunning DEF ReportInv, NotedTruly
<1>8. CASE SumUpTests
  <2>1. /\ script' = "tests" /\ UNCHANGED <<script, did, holds, told, rows, conforming>>
        /\ reportPc' = "ended" /\ UNCHANGED probed
        /\ reportExit' = "clean" => PassedTests = PerTest /\ rows = {}
    BY <1>8 DEF SumUpTests, Running
  <2>2. TestsPassedByThePort'
    <3>1. SUFFICES ASSUME reportExit' = "clean"
                   PROVE  /\ told.c \subseteq told.zig \intersect holds.zig
                          /\ Cardinality(PassedTests) = Cardinality(Assertions) =>
                               Assertions \subseteq told.c \intersect told.zig \intersect holds.zig
                          /\ \A i \in DOMAIN did : did[i].c = did[i].zig
      BY <2>1 DEF TestsPassedByThePort, Clean, PassedTests, PerTest
    <3>2. told.c \subseteq told.zig \intersect holds.zig
      BY <2>1, <3>1 DEF PassedTests, PerTest
    <3>3. Cardinality(PassedTests) = Cardinality(Assertions) => PassedTests = Assertions
      <4>1. PassedTests \in SUBSET Assertions
        BY DEF ReportInv, PassedTests, PerTest, Backend
      <4>2. QED
        BY <4>1, ReportAssumption, FS_Subset DEF ReportAssumption
    <3>4. \A i \in DOMAIN did : did[i].c = did[i].zig
      BY <2>1, <3>1 DEF ReportInv, NotedTruly, ToldInTests
    <3>5. QED
      BY <3>2, <3>3, <3>4 DEF PassedTests, PerTest
  <2>3. QED
    BY <2>1, <2>2 DEF ReportInv, NotedTruly, ToldInTests, ReportsAreHonest, DocumentsAgreedOn,
                      BitsAreTheReference, Clean
<1>9. CASE SumUp
  <2>1. /\ script # "tests" /\ UNCHANGED <<script, told, did, rows, conforming, probed>>
        /\ reportPc' = "ended" /\ (reportExit' = "clean" => rows = {})
    BY <1>9 DEF SumUp
  <2>2. TestsPassedByThePort'
    BY <2>1 DEF TestsPassedByThePort, Clean
  <2>3. DocumentsAgreedOn'
    <3>1. SUFFICES ASSUME reportExit' = "clean", script = "conformance",
                          NEW i \in DOMAIN did, did[i].kind # "other"
                   PROVE  /\ {did[i].c, did[i].zig} \intersect Answers # {} => did[i].c = did[i].zig
                          /\ i \in conforming /\ did[i].kind # "i" =>
                               did[i].c = IF did[i].kind = "y" THEN "accepts" ELSE "rejects"
      BY <2>1 DEF DocumentsAgreedOn, Clean, Answers
    <3>2. ToldInConformance(i) /\ <<"zig", i>> \notin rows
      BY <2>1, <3>1 DEF ReportInv, NotedTruly
    <3>3. QED
      BY <3>1, <3>2 DEF ToldInConformance, Ends, Accepted, Conforms, Answers
  <2>4. BitsAreTheReference'
    BY <2>1 DEF BitsAreTheReference, GivesTheBits, Clean, ReportInv, NotedTruly, ToldInHexfloat
  <2>5. QED
    BY <2>1, <2>2, <2>3, <2>4
       DEF ReportInv, NotedTruly, ToldInTests, ToldInConformance, ToldInHexfloat, ReportsAreHonest
<1>10. QED
  BY <1>1, <1>2, <1>3, <1>4, <1>5, <1>6, <1>7, <1>8, <1>9 DEF ReportsNext

(***************************************************************************)
(* What an exit of 0 of each of the three scripts says of the port         *)
(* (ReportsAreHonest), for any number of cases and of assertions: no test  *)
(* told of that the port failed or did not reach, no document one program  *)
(* alone answered, and no bits but the reference's where it was asked.     *)
(***************************************************************************)
THEOREM ReportsAreOwedToThePort == ReportsSpec => []ReportsAreHonest
<1>1. ReportInv => ReportsAreHonest
  BY DEF ReportInv
<1>2. QED
  BY <1>1, ReportInvInit, ReportInvKept, PTL DEF ReportsSpec

-----------------------------------------------------------------------------
(***************************************************************************)
(* The public copy.  While an audit runs nothing is written or measured,   *)
(* so what it has found wrong in a document is what is wrong in it still   *)
(* when the exit status is made of it.                                     *)
(***************************************************************************)
Faults(d) == IF d \in DOMAIN pages THEN Unbacked(d) \union BarredIn(d) ELSE {"missing"}

CopyInv ==
  /\ DOMAIN pages \subseteq DOMAIN Documents
  /\ \A d \in DOMAIN pages : pages[d] \subseteq Passages
  /\ auditPc = "idle" => audited = {}
  /\ auditPc = "audit" => auditExit = "none"
  /\ \A d \in audited : \A n \in Faults(d) : <<d, n>> \in problems
  /\ CopyIsBacked

LEMMA CopyInvInit == CopyInit => CopyInv
BY DEF CopyInit, CopyInv, CopyIsBacked

(* A document in which an audit found nothing is one the promise is kept in. *)
LEMMA FaultlessIsBacked ==
  ASSUME CopyInv, NEW d \in DOMAIN pages, Unbacked(d) \union BarredIn(d) = {}, NEW p \in pages[d]
  PROVE  /\ /\ p.says \in Figures
            /\ p.where = "prose" \/ (p.where = "fenced" /\ Documents[d].fenced)
            => p.says \in measured \union Reasoned \union Identifiers \union (corpus \ measured)
         /\ p.says \in Subjects \intersect Marked =>
              \E c \in Ledger : /\ c.subject = p.says
                                /\ Documents[d].channel \in c.allowed \union c.disclosed
<1>1. p.where \in Where
  BY DEF CopyInv, Passages
<1>2. \A places : p.where \in places => p.says \in SaidIn(d, places)
  BY DEF SaidIn
<1>3. ASSUME p.says \in Figures, p.where = "prose" \/ (p.where = "fenced" /\ Documents[d].fenced)
      PROVE  p.says \in Identifiers \union Reasoned \union corpus
  <2>1. p.says \in SaidIn(d, IF Documents[d].fenced THEN {"prose", "fenced"} ELSE {"prose"})
    BY <1>2, <1>3
  <2>2. QED
    BY <1>3, <2>1 DEF Unbacked, NumbersIn
<1>4. ASSUME p.says \in Subjects, p.says \in Marked
      PROVE  \E c \in Ledger : /\ c.subject = p.says
                               /\ Documents[d].channel \in c.allowed \union c.disclosed
  <2>1. PICK c \in Ledger : c.subject = p.says
    BY <1>4 DEF Subjects
  <2>2. p.says \in SaidIn(d, Where)
    BY <1>1, <1>2
  <2>3. QED
    BY <1>4, <2>1, <2>2 DEF BarredIn
<1>5. QED
  BY <1>3, <1>4

LEMMA CopyInvKept == CopyInv /\ [CopyNext]_copyVars => CopyInv'
<1> SUFFICES ASSUME CopyInv, [CopyNext]_copyVars PROVE CopyInv'
  OBVIOUS
<1>1. CASE WriteCopy
  <2>1. PICK d \in DOMAIN Documents, p \in Passages :
          pages' = [e \in DOMAIN pages \union {d} |-> IF e = d THEN {p} ELSE pages[e]]
    BY <1>1 DEF WriteCopy
  <2>2. /\ auditPc' = "idle" /\ audited' = {} /\ auditExit' = "none"
    BY <1>1 DEF WriteCopy, Moved, CopyInv
  <2>3. DOMAIN pages' \subseteq DOMAIN Documents /\ \A e \in DOMAIN pages' : pages'[e] \subseteq Passages
    BY <2>1 DEF CopyInv
  <2>4. QED
    BY <2>2, <2>3 DEF CopyInv, CopyIsBacked
<1>2. CASE Remeasure
  BY <1>2 DEF Remeasure, Moved, CopyInv, CopyIsBacked
<1>3. CASE StartAudit
  BY <1>3 DEF StartAudit, CopyInv, CopyIsBacked
<1>4. CASE AuditDocument
  <2>1. PICK d \in DOMAIN Documents \ audited :
          /\ audited' = audited \union {d}
          /\ problems' = problems \union
               IF d \in DOMAIN pages THEN {<<d, n>> : n \in Unbacked(d) \union BarredIn(d)}
                                     ELSE {<<d, "missing">>}
    BY <1>4 DEF AuditDocument
  <2>2. \A n \in Faults(d) : <<d, n>> \in problems'
    BY <2>1 DEF Faults
  <2>3. /\ auditPc = "audit" /\ UNCHANGED <<auditPc, pages, measured, corpus, auditExit>>
    BY <1>4 DEF AuditDocument
  <2>4. \A e : Faults(e)' = Faults(e)
    BY <2>3 DEF Faults, Unbacked, NumbersIn, BarredIn, SaidIn
  <2>5. QED
    BY <2>1, <2>2, <2>3, <2>4 DEF CopyInv, CopyIsBacked
<1>5. CASE FinishAudit
  <2>1. /\ audited = DOMAIN Documents /\ audited' = {} /\ auditPc' = "idle"
        /\ UNCHANGED <<pages, measured, corpus>>
        /\ auditExit' = "clean" => problems = {}
    BY <1>5 DEF FinishAudit
  <2>2. ASSUME auditExit' = "clean" PROVE \A d \in DOMAIN Documents : Faults(d) = {}
    BY <2>1, <2>2 DEF CopyInv
  <2>3. ASSUME auditExit' = "clean"
        PROVE  DOMAIN pages = DOMAIN Documents /\ \A d \in DOMAIN pages : Unbacked(d) \union BarredIn(d) = {}
    BY <2>2, <2>3 DEF CopyInv, Faults
  <2>4. CopyIsBacked'
    BY <2>1, <2>3, FaultlessIsBacked DEF CopyIsBacked
  <2>5. QED
    BY <2>1, <2>4 DEF CopyInv
<1>6. CASE UNCHANGED copyVars
  <2>1. \A e : Faults(e)' = Faults(e)
    BY <1>6 DEF copyVars, Faults, Unbacked, NumbersIn, BarredIn, SaidIn
  <2>2. QED
    BY <1>6, <2>1 DEF copyVars, CopyInv, CopyIsBacked
<1>7. QED
  BY <1>1, <1>2, <1>3, <1>4, <1>5, <1>6 DEF CopyNext

(***************************************************************************)
(* After an audit that ends well, and until something is written or        *)
(* measured again, every claim of the copy is backed and told where it     *)
(* may be, for any documents, figures and ledger.                          *)
(***************************************************************************)
THEOREM AuditedCopyIsBacked == CopySpec => []CopyIsBacked
<1>1. CopyInv => CopyIsBacked
  BY DEF CopyInv
<1>2. QED
  BY <1>1, CopyInvInit, CopyInvKept, PTL DEF CopySpec

-----------------------------------------------------------------------------
(***************************************************************************)
(* The escape-hatch inventory.  Two recursive functions run over a line,   *)
(* the scan's and the compiler's; what each gives is an induction on the   *)
(* places of the line.                                                     *)
(***************************************************************************)
(* strip_comments over a line. *)
Wherein == {""} \union Quotes \union {"//"}

LEMMA PastStays == \A w \in Wherein, t \in Texts : Past(w, t) \in Wherein
BY DEF Past, Wherein

LEMMA WithinValues ==
  ASSUME NEW toks \in Seq(Texts)
  PROVE  /\ Within(toks)[0] = ""
         /\ \A n \in Nat : n < Len(toks) =>
              Within(toks)[n + 1] = Past(Within(toks)[n], toks[n + 1])
<1> DEFINE IsWithin(w) ==
      w = [n \in 0 .. Len(toks) |-> IF n = 0 THEN "" ELSE Past(w[n - 1], toks[n])]
<1>1. PICK N \in Nat : N = Len(toks)
  OBVIOUS
<1> DEFINE F == [n \in 1 .. N |-> [w \in Wherein |-> Past(w, toks[n])]]
<1>2. F \in [1 .. N -> [Wherein -> Wherein]]
  BY <1>1, PastStays
<1>3. PICK f \in [0 .. N -> Wherein] : IsRunOf(f, "", N, F)
  <2> HIDE DEF F
  <2>1. "" \in Wherein
    BY DEF Wherein
  <2>2. QED
    BY <1>1, <1>2, <2>1, RunOf
<1>4. ASSUME NEW n \in 0 .. N PROVE f[n] = IF n = 0 THEN "" ELSE Past(f[n - 1], toks[n])
  <2>1. CASE n = 0
    BY <1>3, <2>1 DEF IsRunOf
  <2>2. CASE n # 0
    <3>1. PICK m \in Nat : n = m + 1 /\ m < N
      <4>1. n - 1 \in Nat /\ n = (n - 1) + 1 /\ n - 1 < N
        BY <2>2
      <4>2. QED
        BY <4>1
    <3>2. f[m] \in Wherein /\ m + 1 \in 1 .. N /\ n - 1 = m
      BY <3>1
    <3>3. f[m + 1] = Past(f[m], toks[m + 1])
      BY <1>3, <3>1, <3>2 DEF IsRunOf
    <3>4. QED
      BY <2>2, <3>1, <3>2, <3>3
  <2>3. QED
    BY <2>1, <2>2
<1>5. IsWithin(f)
  <2>1. f = [n \in 0 .. N |-> f[n]]
    OBVIOUS
  <2>2. [n \in 0 .. N |-> f[n]] = [n \in 0 .. N |-> IF n = 0 THEN "" ELSE Past(f[n - 1], toks[n])]
    BY <1>4
  <2>3. QED
    BY <1>1, <2>1, <2>2
<1>6. PICK w : w = Within(toks) /\ IsWithin(w)
  <2>1. Within(toks) = CHOOSE w : IsWithin(w)
    BY DEF Within
  <2> HIDE DEF IsWithin
  <2>2. QED
    BY <1>5, <2>1
<1>7. w[0] = ""
  <2>1. 0 \in 0 .. Len(toks)
    BY <1>1
  <2>2. QED
    BY <1>6, <2>1
<1>8. ASSUME NEW n \in Nat, n < Len(toks) PROVE w[n + 1] = Past(w[n], toks[n + 1])
  <2>1. n + 1 \in 0 .. Len(toks) /\ n + 1 # 0 /\ (n + 1) - 1 = n
    BY <1>1, <1>8
  <2>2. QED
    BY <1>6, <2>1
<1>9. QED
  BY <1>6, <1>7, <1>8

(* The places of a line and of its literals are numbers. *)
LEMMA LineFacts ==
  ASSUME NEW l, ZigLine(l)
  PROVE  /\ l.toks \in Seq(Texts) /\ Len(l.toks) \in Nat
         /\ l.tail \in Nat /\ 1 <= l.tail /\ l.tail <= Len(l.toks) + 1
         /\ \A p \in l.literals : p[1] \in Nat /\ p[2] \in Nat /\ 1 <= p[1]
         /\ \A n \in Code(l) : n \in Nat /\ 1 <= n /\ n < l.tail /\ n <= Len(l.toks)
<1>1. l.toks \in Seq(Texts) /\ l.tail \in 1 .. Len(l.toks) + 1
      /\ l.literals \subseteq (1 .. Len(l.toks)) \X (1 .. Len(l.toks))
  BY DEF ZigLine
<1>2. PICK N \in Nat : N = Len(l.toks)
  BY <1>1
<1>3. \A p \in l.literals : p[1] \in 1 .. N /\ p[2] \in 1 .. N
  BY <1>1, <1>2
<1>4. \A n \in Code(l) : n \in 1 .. l.tail - 1
  BY DEF Code
<1>5. QED
  BY <1>1, <1>2, <1>3, <1>4

(* Outside the comment the scan is in the literal the compiler is in. *)
Tracks(l, n) ==
  /\ \A p \in l.literals : p[1] <= n /\ n < p[2] => Within(l.toks)[n] = l.toks[p[1]]
  /\ (\A p \in l.literals : n < p[1] \/ p[2] <= n) => Within(l.toks)[n] = ""

LEMMA ScanTracksLiterals ==
  ASSUME NEW l, ZigLine(l)
  PROVE  \A n \in Nat : n < l.tail => Tracks(l, n)
<1> DEFINE w == Within(l.toks)
<1> DEFINE T == {n \in Nat : n < l.tail => Tracks(l, n)}
<1>1. 0 \in T
  <2>1. w[0] = "" /\ \A p \in l.literals : ~(p[1] <= 0)
    <3>1. w[0] = ""
      BY LineFacts, WithinValues
    <3> HIDE DEF w
    <3>2. \A p \in l.literals : ~(p[1] <= 0)
      BY LineFacts
    <3>3. QED
      BY <3>1, <3>2
  <2> HIDE DEF w
  <2>2. QED
    BY <2>1 DEF Tracks, w
<1>2. ASSUME NEW n \in Nat, n \in T PROVE n + 1 \in T
  <2>1. SUFFICES ASSUME n + 1 < l.tail PROVE Tracks(l, n + 1)
    OBVIOUS
  <2>2. /\ n < l.tail /\ n < Len(l.toks) /\ n + 1 \in 1 .. Len(l.toks)
        /\ n + 1 \in Nat
    BY <2>1, LineFacts
  <2>3. Tracks(l, n) /\ w[n + 1] = Past(w[n], l.toks[n + 1])
    BY <1>2, <2>2, LineFacts, WithinValues
  <2>4. \A p \in l.literals :
          /\ p[1] \in Nat /\ p[2] \in Nat /\ p[1] < p[2]
          /\ l.toks[p[1]] \in Quotes /\ l.toks[p[2]] = l.toks[p[1]]
          /\ p[1] < n + 1 /\ n + 1 < p[2] => l.toks[n + 1] # l.toks[p[1]]
          /\ \A q \in l.literals : q = p \/ q[2] < p[1] \/ p[2] < q[1]
    BY <2>2, LineFacts DEF ZigLine
  <2>5. (\A p \in l.literals : n + 1 < p[1] \/ p[2] < n + 1)
          => l.toks[n + 1] \notin Quotes \union {"//"}
    BY <2>1, <2>2 DEF ZigLine
  <2> HIDE DEF w
  <2>6. CASE \E p \in l.literals : p[1] = n + 1
    <3>1. PICK p \in l.literals : p[1] = n + 1
      BY <2>6
    <3>2. \A q \in l.literals : n < q[1] \/ q[2] <= n
      BY <2>4, <3>1
    <3>3. w[n] = "" /\ l.toks[n + 1] \in Quotes
      BY <2>3, <2>4, <3>1, <3>2 DEF Tracks, w
    <3>4. w[n + 1] = l.toks[p[1]]
      BY <2>3, <3>1, <3>3 DEF Past
    <3>5. \A q \in l.literals : q[1] <= n + 1 /\ n + 1 < q[2] => q = p
      BY <2>4, <3>1
    <3>6. p[1] <= n + 1 /\ n + 1 < p[2]
      BY <2>4, <3>1
    <3>7. ~(n + 1 < p[1] \/ p[2] <= n + 1)
      BY <2>4, <3>1
    <3>8. QED
      BY <3>4, <3>5, <3>7 DEF Tracks, w
  <2>7. CASE \E p \in l.literals : p[1] <= n /\ n < p[2]
    <3>1. PICK p \in l.literals : p[1] <= n /\ n < p[2]
      BY <2>7
    <3>2. w[n] = l.toks[p[1]] /\ w[n] \in Quotes
      BY <2>3, <2>4, <3>1 DEF Tracks, w
    <3>3. \A q \in l.literals : q[1] <= n + 1 /\ n + 1 < q[2] => q = p
      BY <2>4, <3>1
    <3>4. CASE n + 1 = p[2]
      <4>1. w[n + 1] = ""
        BY <2>3, <2>4, <3>2, <3>4 DEF Past, Quotes
      <4>2. \A q \in l.literals : ~(q[1] <= n + 1 /\ n + 1 < q[2])
        BY <2>4, <3>1, <3>3, <3>4
      <4>3. QED
        BY <4>1, <4>2 DEF Tracks, w
    <3>5. CASE n + 1 # p[2]
      <4>1. p[1] < n + 1 /\ n + 1 < p[2]
        BY <2>4, <3>1, <3>5
      <4>2. w[n + 1] = l.toks[p[1]]
        BY <2>3, <2>4, <3>2, <4>1 DEF Past, Quotes
      <4>3. ~(n + 1 < p[1] \/ p[2] <= n + 1)
        BY <2>4, <4>1
      <4>4. QED
        BY <3>3, <4>2, <4>3 DEF Tracks, w
    <3>6. QED
      BY <3>4, <3>5
  <2>8. CASE \A p \in l.literals : p[1] # n + 1 /\ ~(p[1] <= n /\ n < p[2])
    <3>1. \A p \in l.literals : n + 1 < p[1] \/ p[2] < n + 1
      BY <2>4, <2>8
    <3>2. \A p \in l.literals : n < p[1] \/ p[2] <= n
      BY <2>4, <3>1
    <3>3. w[n] = "" /\ l.toks[n + 1] \notin Quotes \union {"//"}
      BY <2>3, <2>5, <3>1, <3>2 DEF Tracks, w
    <3>4. w[n + 1] = ""
      BY <2>3, <3>3 DEF Past
    <3>5. \A p \in l.literals : ~(p[1] <= n + 1 /\ n + 1 < p[2])
      BY <2>4, <3>1
    <3>6. QED
      BY <3>4, <3>5 DEF Tracks, w
  <2>9. QED
    BY <2>6, <2>7, <2>8
<1>3. \A n \in Nat : n \in T
  <2> HIDE DEF T
  <2>1. QED
    BY <1>1, <1>2, Counting
<1>4. QED
  BY <1>3

(* No code is taken for a comment. *)
LEMMA CodeIsKept ==
  ASSUME NEW l, ZigLine(l)
  PROVE  Code(l) \subseteq Stripped(l.toks)
<1> SUFFICES ASSUME NEW n \in Code(l) PROVE n \in Stripped(l.toks)
  OBVIOUS
<1>1. /\ n \in Nat /\ n < l.tail /\ n \in DOMAIN l.toks
      /\ \A p \in l.literals : n < p[1] \/ p[2] < n
  BY LineFacts DEF Code
<1>2. \A p \in l.literals : n < p[1] \/ p[2] <= n
  BY <1>1, LineFacts
<1>3. Within(l.toks)[n] = ""
  BY <1>1, <1>2, ScanTracksLiterals DEF Tracks
<1>4. QED
  BY <1>1, <1>3 DEF Stripped

(* The scan counts all that the compiler counts. *)
LEMMA CountedMore ==
  ASSUME NEW l, ZigLine(l), NEW t
  PROVE  /\ Hits(l, t) \in Nat /\ Count(l.toks, Code(l), t) \in Nat
         /\ Hits(l, t) >= Count(l.toks, Code(l), t)
         /\ (\E n \in Code(l) : l.toks[n] = t) => Hits(l, t) > 0
<1> DEFINE K == {n \in Stripped(l.toks) : l.toks[n] = t}
<1> DEFINE C == {n \in Code(l) : l.toks[n] = t}
<1>1. IsFiniteSet(K)
  <2>1. K \subseteq 1 .. Len(l.toks) /\ IsFiniteSet(1 .. Len(l.toks))
    <3>1. PICK N \in Nat : N = Len(l.toks)
      BY LineFacts
    <3>2. l.toks \in Seq(Texts) /\ DOMAIN l.toks = 1 .. N
      BY <3>1, LineFacts
    <3>3. IsFiniteSet(1 .. N)
      BY FS_Interval
    <3>4. QED
      BY <3>1, <3>2, <3>3 DEF Stripped
  <2>2. QED
    BY <2>1, FS_Subset
<1>2. C \subseteq K
  BY CodeIsKept
<1>3. /\ IsFiniteSet(C) /\ Cardinality(C) <= Cardinality(K)
  BY <1>1, <1>2, FS_Subset
<1>4. Cardinality(K) \in Nat /\ Cardinality(C) \in Nat
  BY <1>1, <1>3, FS_CardinalityType
<1>5. K # {} => Cardinality(K) # 0
  BY <1>1, FS_EmptySet
<1>6. Hits(l, t) = Cardinality(K) /\ Count(l.toks, Code(l), t) = Cardinality(C)
  BY DEF Hits, Count
<1>7. (\E n \in Code(l) : l.toks[n] = t) => K # {}
  BY <1>2
<1> HIDE DEF K, C
<1>8. QED
  BY <1>3, <1>4, <1>5, <1>6, <1>7

-----------------------------------------------------------------------------
(* The compiler over a line. *)
Owners ==
  {FileScope} \union {Fn(l.head, l.name) : l \in Lines} \union {Header(l) : l \in Lines}

NestStates == [level : Int, fn : Owners, at : Int, awaiting : Owners]

LEMMA NestedStays == \A s \in NestStates : \A t : Nested(s, t) \in NestStates
<1> SUFFICES ASSUME NEW s \in NestStates, NEW t PROVE Nested(s, t) \in NestStates
  OBVIOUS
<1>1. FileScope \in Owners
  BY DEF Owners
<1>2. /\ s.level \in Int /\ s.fn \in Owners /\ s.awaiting \in Owners
      /\ s.level + 1 \in Int /\ s.level - 1 \in Int
  BY DEF NestStates
<1>3. CASE t = "open"
  <2>1. CASE s.awaiting = FileScope
    BY <1>2, <1>3, <2>1 DEF Nested, NestStates
  <2>2. CASE s.awaiting # FileScope
    <3>1. Nested(s, t) = [level |-> s.level + 1, fn |-> s.awaiting, at |-> s.level,
                          awaiting |-> FileScope]
      BY <1>3, <2>2 DEF Nested
    <3>2. QED
      BY <1>1, <1>2, <3>1 DEF NestStates
  <2>3. QED
    BY <2>1, <2>2
<1>4. CASE t = "close"
  <2>1. CASE s.level - 1 = s.at
    <3>1. Nested(s, t) = [level |-> s.level - 1, fn |-> FileScope, at |-> 0,
                          awaiting |-> s.awaiting]
      BY <1>4, <2>1 DEF Nested, NestStates
    <3>2. QED
      BY <1>1, <1>2, <3>1 DEF NestStates
  <2>2. CASE s.level - 1 # s.at
    BY <1>2, <1>4, <2>2 DEF Nested, NestStates
  <2>3. QED
    BY <2>1, <2>2
<1>5. CASE t \notin {"open", "close"}
  BY <1>5 DEF Nested
<1>6. QED
  BY <1>3, <1>4, <1>5

Start(line) ==
  IF line.head \in {"fn", "test"} THEN [nest EXCEPT !.awaiting = Fn(line.head, line.name)]
  ELSE nest

Turn(line, s, n) == IF n \in Code(line) THEN Nested(s, line.toks[n]) ELSE s

LEMMA BlocksValues ==
  ASSUME NEW line \in Lines, nest \in NestStates
  PROVE  /\ Blocks(line)[0] = Start(line) /\ Blocks(line)[0] \in NestStates
         /\ \A n \in Nat : n < Len(line.toks) =>
              Blocks(line)[n + 1] = Turn(line, Blocks(line)[n], n + 1)
<1> DEFINE IsBlocks(b) ==
      b = [n \in 0 .. Len(line.toks) |->
             IF n = 0 THEN IF line.head \in {"fn", "test"}
                           THEN [nest EXCEPT !.awaiting = Fn(line.head, line.name)] ELSE nest
             ELSE IF n \in Code(line) THEN Nested(b[n - 1], line.toks[n])
             ELSE b[n - 1]]
<1>1. PICK N \in Nat : N = Len(line.toks)
  BY LineFacts, InventoryAssumption DEF InventoryAssumption
<1>2. Start(line) \in NestStates
  BY DEF Start, NestStates, Owners
<1> DEFINE F == [n \in 1 .. N |-> [s \in NestStates |-> Turn(line, s, n)]]
<1>3. F \in [1 .. N -> [NestStates -> NestStates]]
  <2>1. \A n, s : s \in NestStates => Turn(line, s, n) \in NestStates
    BY NestedStays DEF Turn
  <2>2. QED
    BY <2>1
<1>4. PICK f \in [0 .. N -> NestStates] : IsRunOf(f, Start(line), N, F)
  <2> HIDE DEF F
  <2>1. QED
    BY <1>1, <1>2, <1>3, RunOf
<1>5. ASSUME NEW n \in 0 .. N
      PROVE  f[n] = IF n = 0 THEN Start(line) ELSE Turn(line, f[n - 1], n)
  <2>1. CASE n = 0
    BY <1>4, <2>1 DEF IsRunOf
  <2>2. CASE n # 0
    <3>1. PICK m \in Nat : n = m + 1 /\ m < N
      <4>1. n - 1 \in Nat /\ n = (n - 1) + 1 /\ n - 1 < N
        BY <2>2
      <4>2. QED
        BY <4>1
    <3>2. f[m] \in NestStates /\ m + 1 \in 1 .. N /\ n - 1 = m
      BY <3>1
    <3>3. f[m + 1] = Turn(line, f[m], m + 1)
      BY <1>4, <3>1, <3>2 DEF IsRunOf
    <3>4. QED
      BY <2>2, <3>1, <3>2, <3>3
  <2>3. QED
    BY <2>1, <2>2
<1>6. IsBlocks(f)
  <2>1. f = [n \in 0 .. N |-> f[n]]
    OBVIOUS
  <2>2. [n \in 0 .. N |-> f[n]]
          = [n \in 0 .. N |-> IF n = 0 THEN Start(line) ELSE Turn(line, f[n - 1], n)]
    BY <1>5
  <2>3. QED
    BY <1>1, <2>1, <2>2 DEF Start, Turn
<1>7. PICK b : b = Blocks(line) /\ IsBlocks(b)
  <2>1. Blocks(line) = CHOOSE b : IsBlocks(b)
    BY DEF Blocks
  <2> HIDE DEF IsBlocks
  <2>2. QED
    BY <1>6, <2>1
<1>8. b[0] = Start(line)
  <2>1. 0 \in 0 .. Len(line.toks)
    BY <1>1
  <2>2. QED
    BY <1>7, <2>1 DEF Start
<1>9. ASSUME NEW n \in Nat, n < Len(line.toks)
      PROVE  b[n + 1] = Turn(line, b[n], n + 1)
  <2>1. n + 1 \in 0 .. Len(line.toks) /\ n + 1 # 0 /\ (n + 1) - 1 = n
    BY <1>1, <1>9
  <2>2. QED
    BY <1>7, <2>1 DEF Turn
<1>10. QED
  BY <1>2, <1>7, <1>8, <1>9

(* The braces of the code among the first n places. *)
Before(line, n, t) == {m \in Code(line) : m <= n /\ line.toks[m] = t}

LEMMA BeforeGrows ==
  ASSUME NEW line \in Lines, NEW n \in Nat, NEW t
  PROVE  /\ IsFiniteSet(Before(line, n, t)) /\ Cardinality(Before(line, n, t)) \in Nat
         /\ Before(line, 0, t) = {}
         /\ n + 1 \in Code(line) /\ line.toks[n + 1] = t =>
              Cardinality(Before(line, n + 1, t)) = Cardinality(Before(line, n, t)) + 1
         /\ ~(n + 1 \in Code(line) /\ line.toks[n + 1] = t) =>
              Before(line, n + 1, t) = Before(line, n, t)
<1>1. \A m \in Code(line) : m \in Nat /\ 1 <= m
  BY LineFacts, InventoryAssumption DEF InventoryAssumption
<1>2. IsFiniteSet(Before(line, n, t))
  <2>1. Before(line, n, t) \subseteq 1 .. n
    BY <1>1 DEF Before
  <2>2. IsFiniteSet(1 .. n)
    BY FS_Interval
  <2>3. QED
    BY <2>1, <2>2, FS_Subset
<1>3. Before(line, 0, t) = {}
  BY <1>1 DEF Before
<1>4. ASSUME n + 1 \in Code(line), line.toks[n + 1] = t
      PROVE  Cardinality(Before(line, n + 1, t)) = Cardinality(Before(line, n, t)) + 1
  <2>1. Before(line, n + 1, t) = Before(line, n, t) \union {n + 1} /\ n + 1 \notin Before(line, n, t)
    BY <1>1, <1>4 DEF Before
  <2>2. QED
    BY <1>2, <2>1, FS_AddElement
<1>5. ASSUME ~(n + 1 \in Code(line) /\ line.toks[n + 1] = t)
      PROVE  Before(line, n + 1, t) = Before(line, n, t)
  <2>1. \A m \in Code(line) : m <= n + 1 <=> m <= n \/ m = n + 1
    BY <1>1
  <2>2. QED
    BY <1>5, <2>1 DEF Before
<1>6. QED
  BY <1>2, <1>3, <1>4, <1>5, FS_CardinalityType

(* After n places: the level is what the braces make it, and a body is open
   that was, or the one that was awaited, whose brace has then been met. *)
OnTheWay(line, n) ==
  LET b == Blocks(line)
  IN /\ b[n] \in NestStates
     /\ b[n].level = nest.level + Cardinality(Before(line, n, "open"))
                                - Cardinality(Before(line, n, "close"))
     /\ b[n].fn = FileScope \/ b[n].awaiting = FileScope
     /\ b[n].awaiting \in {b[0].awaiting, FileScope}
     /\ b[n].fn \in {b[0].fn, b[0].awaiting, FileScope}
     /\ b[n].awaiting # b[0].awaiting => \E m \in Code(line) : line.toks[m] = "open"

LEMMA Rose ==
  \A k \in Int, o \in Nat, c \in Nat, x \in Int : x = k + o - c => x + 1 = k + (o + 1) - c
OBVIOUS

LEMMA Fell ==
  \A k \in Int, o \in Nat, c \in Nat, x \in Int : x = k + o - c => x - 1 = k + o - (c + 1)
OBVIOUS

LEMMA BlocksOnTheWay ==
  ASSUME NEW line \in Lines, nest \in NestStates,
         Start(line).fn = FileScope \/ Start(line).awaiting = FileScope
  PROVE  \A n \in Nat : n <= Len(line.toks) => OnTheWay(line, n)
<1> DEFINE T == {n \in Nat : n <= Len(line.toks) => OnTheWay(line, n)}
<1> DEFINE b == Blocks(line)
<1>1. PICK N \in Nat : N = Len(line.toks)
  BY LineFacts, InventoryAssumption DEF InventoryAssumption
<1>2. 0 \in T
  <2>1. b[0] = Start(line) /\ b[0] \in NestStates
    BY BlocksValues
  <2>2. b[0].level = nest.level /\ nest.level \in Int
    BY <2>1 DEF Start, NestStates
  <2>3. Cardinality(Before(line, 0, "open")) = 0 /\ Cardinality(Before(line, 0, "close")) = 0
    BY BeforeGrows, FS_EmptySet
  <2>4. b[0].level = nest.level + Cardinality(Before(line, 0, "open"))
                              - Cardinality(Before(line, 0, "close"))
    BY <2>2, <2>3
  <2> HIDE DEF b
  <2>5. OnTheWay(line, 0)
    BY <2>1, <2>4 DEF OnTheWay, b
  <2>6. QED
    BY <2>5
<1>3. ASSUME NEW n \in Nat, n \in T PROVE n + 1 \in T
  <2>1. SUFFICES ASSUME n + 1 <= Len(line.toks) PROVE OnTheWay(line, n + 1)
    OBVIOUS
  <2>2. n <= Len(line.toks) /\ n < Len(line.toks)
    BY <1>1, <2>1
  <2>3. OnTheWay(line, n) /\ b[n + 1] = Turn(line, b[n], n + 1)
    BY <1>3, <2>2, BlocksValues
  <2>4. PICK s : s = b[n]
    OBVIOUS
  <2>5. PICK z : z = b[0]
    OBVIOUS
  <2>6. /\ s \in NestStates
        /\ s.level = nest.level + Cardinality(Before(line, n, "open")) - Cardinality(Before(line, n, "close"))
        /\ s.fn = FileScope \/ s.awaiting = FileScope
        /\ s.awaiting \in {z.awaiting, FileScope}
        /\ s.fn \in {z.fn, z.awaiting, FileScope}
        /\ s.awaiting # z.awaiting => \E m \in Code(line) : line.toks[m] = "open"
    BY <2>3, <2>4, <2>5 DEF OnTheWay
  <2>7. /\ s.level \in Int /\ nest.level \in Int
        /\ Cardinality(Before(line, n, "open")) \in Nat /\ Cardinality(Before(line, n, "close")) \in Nat
    BY <2>6, BeforeGrows DEF NestStates
  <2> HIDE DEF b
  <2>8. CASE n + 1 \notin Code(line)
    <3>1. b[n + 1] = s
      BY <2>3, <2>4, <2>8 DEF Turn
    <3>2. /\ Before(line, n + 1, "open") = Before(line, n, "open")
          /\ Before(line, n + 1, "close") = Before(line, n, "close")
      BY <2>8, BeforeGrows
    <3>3. QED
      BY <2>5, <2>6, <3>1, <3>2 DEF OnTheWay, b
  <2>9. CASE n + 1 \in Code(line)
    <3>1. PICK u : u = b[n + 1]
      OBVIOUS
    <3>2. u = Nested(s, line.toks[n + 1]) /\ u \in NestStates
      BY <2>3, <2>4, <2>6, <2>9, <3>1, NestedStays DEF Turn
    <3>3. CASE line.toks[n + 1] = "open"
      <4>1. /\ Cardinality(Before(line, n + 1, "open")) = Cardinality(Before(line, n, "open")) + 1
            /\ Before(line, n + 1, "close") = Before(line, n, "close")
        BY <2>9, <3>3, BeforeGrows
      <4>2. /\ u.level = s.level + 1 /\ u.awaiting = FileScope
            /\ u.fn = s.fn \/ u.fn = s.awaiting
        BY <2>6, <3>2, <3>3 DEF Nested, NestStates
      <4>3. u.level = nest.level + Cardinality(Before(line, n + 1, "open"))
                                - Cardinality(Before(line, n + 1, "close"))
        BY <2>6, <2>7, <4>1, <4>2, Rose
      <4>4. QED
        BY <2>5, <2>6, <2>9, <3>1, <3>2, <3>3, <4>2, <4>3 DEF OnTheWay, b
    <3>4. CASE line.toks[n + 1] = "close"
      <4>1. /\ Cardinality(Before(line, n + 1, "close")) = Cardinality(Before(line, n, "close")) + 1
            /\ Before(line, n + 1, "open") = Before(line, n, "open")
        BY <2>9, <3>4, BeforeGrows
      <4>2. /\ u.level = s.level - 1 /\ u.awaiting = s.awaiting
            /\ u.fn = s.fn \/ u.fn = FileScope
        BY <2>6, <3>2, <3>4 DEF Nested, NestStates
      <4>3. u.level = nest.level + Cardinality(Before(line, n + 1, "open"))
                                - Cardinality(Before(line, n + 1, "close"))
        BY <2>6, <2>7, <4>1, <4>2, Fell
      <4>4. QED
        BY <2>5, <2>6, <3>1, <3>2, <4>2, <4>3 DEF OnTheWay, b
    <3>5. CASE line.toks[n + 1] \notin {"open", "close"}
      <4>1. u = s
        BY <3>2, <3>5 DEF Nested
      <4>2. /\ Before(line, n + 1, "open") = Before(line, n, "open")
            /\ Before(line, n + 1, "close") = Before(line, n, "close")
        BY <3>5, BeforeGrows
      <4>3. QED
        BY <2>5, <2>6, <3>1, <4>1, <4>2 DEF OnTheWay, b
    <3>6. QED
      BY <3>3, <3>4, <3>5
  <2>10. QED
    BY <2>8, <2>9
<1>4. \A n \in Nat : n \in T
  <2> HIDE DEF T
  <2>1. QED
    BY <1>2, <1>3, Counting
<1>5. QED
  BY <1>4

-----------------------------------------------------------------------------
(***************************************************************************)
(* Where a body is open, the scan is in it or at the file's own level, and *)
(* no header waits, a prototype's neither: it took the body's header when  *)
(* the brace came, or too early for a brace in a literal, and leaves it    *)
(* for nothing but the file's level, which no rule for one function        *)
(* covers.  Elsewhere a prototype may wait for a brace that is not its     *)
(* own, until the next header.  Where literals balance, the scan's depth   *)
(* is the level.                                                           *)
(***************************************************************************)
NestInv ==
  /\ nest \in NestStates /\ nest.level >= 0
  /\ nest.fn = FileScope \/ nest.awaiting = FileScope

FollowInv ==
  /\ scan.depth \in Int
  /\ ~skewed => scan.depth = nest.level
  /\ nest.fn # FileScope => scan.current \in {nest.fn, FileScope} /\ scan.pending = FileScope
  /\ nest.awaiting # FileScope => scan.pending \in {nest.awaiting, FileScope}
  /\ nest.awaiting # FileScope /\ scan.pending = FileScope
       => scan.current \in {nest.awaiting, FileScope}

(* A hatch has its entry. *)
Filed(h) ==
  \E e \in scan.filed :
    /\ e.op = h.op /\ e.line = h.line /\ e.hits >= h.hits
    /\ h.fn # FileScope => e.fn \in {h.fn, FileScope}
    /\ ~skewed /\ h.outside /\ h.whole => e.fn = FileScope

ScanStates ==
  [read : Nat, current : Owners, depth : Int, pending : Owners,
   filed : SUBSET [fn : Owners, op : Hatches, line : Nat, hits : Nat]]

InventoryInv ==
  /\ NestInv /\ FollowInv
  /\ scan \in ScanStates
  /\ skewed \in BOOLEAN
  /\ \A h \in inCode : h.fn \in Owners /\ Filed(h)
  /\ inventoryPc = "clean" => inventory = "current" /\ Forbidden = {} /\ Unclassified = {}

LEMMA LinesCompile == \A l \in Lines : ZigLine(l) /\ l.head \in {"fn", "proto", "test", "other"}
BY InventoryAssumption DEF InventoryAssumption

LEMMA FileScopeOwns == FileScope \in Owners
BY DEF Owners

LEMMA InventoryInvInit == InventoryInit => InventoryInv
<1> SUFFICES ASSUME InventoryInit PROVE InventoryInv
  OBVIOUS
<1>1. /\ nest = Closed /\ scan = Fresh /\ skewed = FALSE /\ inCode = {}
      /\ inventoryPc = "idle"
  BY DEF InventoryInit
<1>2. NestInv
  BY <1>1, FileScopeOwns DEF NestInv, NestStates, Closed
<1>3. FollowInv
  BY <1>1 DEF FollowInv, Fresh, Closed
<1>4. scan \in ScanStates
  BY <1>1, FileScopeOwns DEF Fresh, ScanStates
<1>5. QED
  BY <1>1, <1>2, <1>3, <1>4 DEF InventoryInv

(* A line's start, and what each place of it keeps. *)
LEMMA LineStarts ==
  ASSUME InventoryInv, NEW line \in Lines, Fits(line)
  PROVE  /\ Start(line) = Blocks(line)[0] /\ Start(line) \in NestStates
         /\ Start(line).fn = nest.fn /\ Start(line).level = nest.level
         /\ Start(line).fn = FileScope \/ Start(line).awaiting = FileScope
         /\ line.head \in {"fn", "test"} =>
              Start(line).awaiting = Header(line) /\ Start(line).awaiting # FileScope
         /\ line.head = "proto" => Start(line).fn = FileScope /\ Start(line).awaiting = FileScope
         /\ line.head = "other" => Start(line).awaiting = nest.awaiting
<1>1. nest \in NestStates
  BY DEF InventoryInv, NestInv
<1>2. Start(line) = Blocks(line)[0] /\ Start(line) \in NestStates
  BY <1>1, BlocksValues
<1>3. CASE line.head \in {"other", "proto"}
  <2>1. Start(line) = nest
    BY <1>3 DEF Start
  <2>2. line.head = "proto" => nest.fn = FileScope /\ nest.awaiting = FileScope
    BY DEF Fits
  <2>3. QED
    BY <1>2, <1>3, <2>1, <2>2 DEF InventoryInv, NestInv
<1>4. CASE line.head \in {"fn", "test"}
  <2>1. Start(line) = [nest EXCEPT !.awaiting = Fn(line.head, line.name)]
    BY <1>4 DEF Start
  <2>2. Fn(line.head, line.name) # FileScope /\ Fn(line.head, line.name) = Header(line)
    BY <1>4 DEF Fn, FileScope, Header
  <2>3. nest.fn = FileScope
    BY <1>4 DEF Fits
  <2>4. QED
    BY <1>1, <1>2, <1>4, <2>1, <2>2, <2>3 DEF NestStates
<1>5. QED
  BY <1>3, <1>4, LinesCompile

End(line) == Blocks(line)[Len(line.toks)]

LEMMA WholeLine ==
  ASSUME InventoryInv, NEW line \in Lines, Fits(line)
  PROVE  /\ \A n \in Nat : n <= Len(line.toks) => OnTheWay(line, n)
         /\ OnTheWay(line, Len(line.toks)) /\ End(line).level >= 0
         /\ End(line).level = nest.level + Count(line.toks, Code(line), "open")
                                        - Count(line.toks, Code(line), "close")
<1>1. \A n \in Nat : n <= Len(line.toks) => OnTheWay(line, n)
  BY LineStarts, BlocksOnTheWay DEF InventoryInv, NestInv
<1>2. PICK N \in Nat : N = Len(line.toks)
  BY LineFacts, LinesCompile
<1>3. OnTheWay(line, Len(line.toks)) /\ N \in 0 .. Len(line.toks)
  BY <1>1, <1>2
<1>4. End(line).level >= 0
  BY <1>2, <1>3 DEF Fits, End
<1>5. \A t : Before(line, Len(line.toks), t) = {n \in Code(line) : line.toks[n] = t}
  BY LineFacts, LinesCompile DEF Before
<1>6. QED
  BY <1>1, <1>3, <1>4, <1>5 DEF OnTheWay, End, Count

(* The scan after a line beside the blocks after it. *)
Follows(next, line) ==
  /\ next.read = scan.read /\ next.filed = scan.filed
  /\ next \in ScanStates
  /\ \A n \in Nat : n <= Len(line.toks) /\ Blocks(line)[n].fn # FileScope
       => next.current \in {Blocks(line)[n].fn, FileScope} /\ next.pending = FileScope
  /\ End(line).awaiting # FileScope => next.pending \in {End(line).awaiting, FileScope}
  /\ End(line).awaiting # FileScope /\ next.pending = FileScope
       => next.current \in {End(line).awaiting, FileScope}
  /\ ~skewed /\ ~Unbalanced(line) =>
       /\ next.depth = End(line).level
       /\ line.head = "other" /\ End(line).level = 0 => next.current = FileScope

LEMMA EnclosingFollows ==
  ASSUME InventoryInv, NEW line \in Lines, Fits(line)
  PROVE  Follows(Enclosing(scan, line), line)
<1> DEFINE named   == line.head # "other"
<1> DEFINE pending == IF named THEN Header(line) ELSE scan.pending
<1> DEFINE opens   == Hits(line, "open")
<1> DEFINE closes  == Hits(line, "close")
<1> DEFINE begins  == pending # FileScope /\ opens > 0
<1> DEFINE depth   == scan.depth + opens - closes
<1> DEFINE out     == depth <= 0 /\ ~named
<1> DEFINE next    == Enclosing(scan, line)
<1> DEFINE a       == Start(line).awaiting
<1>1. /\ scan \in ScanStates
      /\ scan.current \in Owners /\ scan.pending \in Owners /\ scan.depth \in Int
      /\ NestInv /\ FollowInv
  BY DEF InventoryInv, ScanStates
<1>2. opens \in Nat /\ closes \in Nat
  BY CountedMore, LinesCompile
<1>3. next = [scan EXCEPT !.current = IF out THEN FileScope ELSE IF begins THEN pending ELSE @,
                          !.pending = IF begins THEN FileScope ELSE pending,
                          !.depth   = IF out THEN 0 ELSE depth]
  BY DEF Enclosing
<1>4. /\ next.current = (IF out THEN FileScope ELSE IF begins THEN pending ELSE scan.current)
      /\ next.pending = (IF begins THEN FileScope ELSE pending)
      /\ next.depth = (IF out THEN 0 ELSE depth)
      /\ next.read = scan.read /\ next.filed = scan.filed
  <2> HIDE DEF out, begins, pending, depth, next
  <2>1. QED
    BY <1>1, <1>3 DEF ScanStates
<1>5. pending \in Owners /\ depth \in Int
  BY <1>1, <1>2 DEF Owners
<1>6. next \in ScanStates
  <2> HIDE DEF out, begins, pending, depth, next
  <2>1. next.current \in Owners /\ next.pending \in Owners /\ next.depth \in Int
    BY <1>1, <1>4, <1>5, FileScopeOwns
  <2>2. next = [scan EXCEPT !.current = next.current, !.pending = next.pending,
                            !.depth = next.depth]
    BY <1>1, <1>3, <1>4 DEF ScanStates
  <2>3. QED
    BY <1>1, <2>1, <2>2 DEF ScanStates
(* Whatever awaited its brace is pending, or was taken too early. *)
<1>7. /\ a # FileScope => pending \in {a, FileScope}
      /\ pending = FileScope /\ a # FileScope => ~named /\ scan.current \in {a, FileScope}
  BY <1>1, LineStarts, LinesCompile DEF FollowInv
<1>8. a # FileScope /\ next.pending = FileScope => next.current \in {a, FileScope}
  <2> HIDE DEF out, pending, next, a, opens, named
  <2>1. QED
    BY <1>4, <1>7
<1>9. ASSUME NEW n \in Nat, n <= Len(line.toks), Blocks(line)[n].awaiting # a
      PROVE  next.pending = FileScope
  <2>1. \E m \in Code(line) : line.toks[m] = "open"
    BY <1>9, WholeLine, LineStarts DEF OnTheWay
  <2>2. opens > 0
    BY <2>1, CountedMore, LinesCompile
  <2> HIDE DEF out, pending, next, a, opens, named
  <2>3. QED
    BY <1>4, <2>2
<1>10. ASSUME NEW n \in Nat, n <= Len(line.toks), Blocks(line)[n].fn # FileScope
       PROVE  next.current \in {Blocks(line)[n].fn, FileScope} /\ next.pending = FileScope
  <2>1. /\ Blocks(line)[n].fn \in {nest.fn, a, FileScope}
        /\ Blocks(line)[n].awaiting = FileScope
        /\ nest.fn = FileScope \/ a = FileScope
    BY <1>10, WholeLine, LineStarts DEF OnTheWay
  <2>2. CASE a = FileScope
    <3>1. Blocks(line)[n].fn = nest.fn /\ nest.fn # FileScope
      BY <1>10, <2>1, <2>2
    <3>2. line.head = "other"
      BY <2>2, <3>1, LineStarts, LinesCompile DEF Fits
    <3>3. scan.current \in {nest.fn, FileScope} /\ pending = FileScope
      BY <1>1, <3>1, <3>2 DEF FollowInv
    <3> HIDE DEF out, pending, next, a, opens, named
    <3>4. QED
      BY <1>4, <3>1, <3>3
  <2>3. CASE a # FileScope
    <3>1. Blocks(line)[n].fn = a /\ next.pending = FileScope
      BY <1>9, <1>10, <2>1, <2>3
    <3>2. QED
      BY <1>8, <2>3, <3>1
  <2>4. QED
    BY <2>2, <2>3
<1>11. /\ OnTheWay(line, Len(line.toks)) /\ End(line) = Blocks(line)[Len(line.toks)]
       /\ End(line).awaiting \in {a, FileScope} /\ Len(line.toks) \in Nat
       /\ Len(line.toks) <= Len(line.toks)
  BY WholeLine, LineStarts, LineFacts, LinesCompile DEF OnTheWay, End
<1>12. End(line).awaiting # FileScope => next.pending \in {End(line).awaiting, FileScope}
  <2>1. CASE End(line).awaiting = a
    <3> HIDE DEF out, pending, next, a, opens, named
    <3>1. QED
      BY <1>4, <1>7, <2>1
  <2>2. CASE End(line).awaiting # a
    BY <1>9, <1>11, <2>2
  <2>3. QED
    BY <2>1, <2>2
<1>13. End(line).awaiting # FileScope /\ next.pending = FileScope
         => next.current \in {End(line).awaiting, FileScope}
  BY <1>8, <1>11
<1>14. ASSUME ~skewed, ~Unbalanced(line)
       PROVE  /\ next.depth = End(line).level
              /\ ~named /\ End(line).level = 0 => next.current = FileScope
  <2> DEFINE o == Count(line.toks, Code(line), "open")
  <2> DEFINE c == Count(line.toks, Code(line), "close")
  <2>1. o \in Nat /\ c \in Nat /\ opens - closes = o - c
    BY <1>14, CountedMore, LinesCompile DEF Unbalanced
  <2>2. scan.depth = nest.level /\ End(line).level = nest.level + o - c /\ End(line).level >= 0
    BY <1>1, <1>14, WholeLine DEF FollowInv
  <2> HIDE DEF o, c, opens, closes, next, named
  <2>3. depth = End(line).level
    BY <1>1, <1>2, <2>1, <2>2
  <2> HIDE DEF depth
  <2>4. QED
    BY <1>4, <1>5, <2>2, <2>3
<1>15. QED
  <2> HIDE DEF next, a
  <2>1. QED
    BY <1>4, <1>6, <1>10, <1>12, <1>13, <1>14 DEF Follows, next

(* The entries a line adds. *)
Entries(next, line) ==
  {[fn |-> next.current, op |-> op, line |-> scan.read + 1, hits |-> Hits(line, op)] :
     op \in {h \in Hatches : Hits(line, h) > 0}}

LEMMA LineFiled ==
  ASSUME InventoryInv, NEW line \in Lines, NEW next, Follows(next, line), next = Enclosing(scan, line)
  PROVE  LET s == ScanLine(scan, line)
         IN /\ s \in ScanStates /\ s.filed = scan.filed \union Entries(next, line)
            /\ s.current = next.current /\ s.pending = next.pending /\ s.depth = next.depth
<1> DEFINE s == ScanLine(scan, line)
<1>1. next \in ScanStates /\ next.read = scan.read /\ next.filed = scan.filed
  BY DEF Follows
<1>2. s = [next EXCEPT !.read = next.read + 1, !.filed = next.filed \union Entries(next, line)]
  BY <1>1 DEF ScanLine, Entries
<1>3. /\ next.read \in Nat /\ next.read + 1 \in Nat /\ next.current \in Owners
      /\ next.filed \in SUBSET [fn : Owners, op : Hatches, line : Nat, hits : Nat]
  BY <1>1 DEF ScanStates
<1>4. Entries(next, line) \in SUBSET [fn : Owners, op : Hatches, line : Nat, hits : Nat]
  <2>1. \A op : Hits(line, op) \in Nat
    BY CountedMore, LinesCompile
  <2>2. QED
    BY <1>1, <1>3, <2>1 DEF Entries
<1>5. s \in ScanStates
  BY <1>1, <1>2, <1>3, <1>4 DEF ScanStates
<1>6. QED
  BY <1>1, <1>2, <1>5 DEF ScanStates

(* A hatch of a line's code has its entry, and is where the scan says. *)
LEMMA HatchFiled ==
  ASSUME InventoryInv, NEW line \in Lines, Fits(line),
         NEW next, Follows(next, line), NEW h \in Compile(line)
  PROVE  /\ h.fn \in Owners
         /\ \E e \in Entries(next, line) :
              /\ e.op = h.op /\ e.line = h.line /\ e.hits >= h.hits
              /\ h.fn # FileScope => e.fn \in {h.fn, FileScope}
              /\ ~skewed /\ ~Unbalanced(line) /\ h.outside /\ h.whole => e.fn = FileScope
<1> DEFINE b == Blocks(line)
<1>1. PICK n \in Code(line) :
        /\ line.toks[n] \in Hatches
        /\ h = [fn |-> b[n].fn, op |-> line.toks[n], line |-> scan.read + 1,
                hits |-> Count(line.toks, Code(line), line.toks[n]),
                outside |-> line.head = "other" /\ b[n].awaiting = FileScope
                             /\ b[n].level = 0,
                whole |-> b[Len(line.toks)].level = 0]
  BY DEF Compile
<1>2. n \in Nat /\ n <= Len(line.toks)
  BY LineFacts, LinesCompile
<1> DEFINE op == line.toks[n]
<1>3. /\ h.fn = b[n].fn /\ h.op = op /\ h.line = scan.read + 1
      /\ h.hits = Count(line.toks, Code(line), op)
      /\ h.outside /\ h.whole => line.head = "other" /\ b[Len(line.toks)].level = 0
  <2> HIDE DEF b
  <2>1. QED
    BY <1>1
<1>4. Hits(line, op) > 0 /\ Hits(line, op) >= Count(line.toks, Code(line), op)
  BY CountedMore, LinesCompile
<1> DEFINE e == [fn |-> next.current, op |-> op, line |-> scan.read + 1, hits |-> Hits(line, op)]
<1>5. e \in Entries(next, line)
  BY <1>1, <1>4 DEF Entries
<1>6. /\ e.fn = next.current /\ e.op = op /\ e.line = scan.read + 1
      /\ e.hits = Hits(line, op)
  OBVIOUS
<1>7. h.fn # FileScope => next.current \in {h.fn, FileScope}
  BY <1>2, <1>3 DEF Follows
<1>8. ~skewed /\ ~Unbalanced(line) /\ h.outside /\ h.whole => next.current = FileScope
  BY <1>3 DEF Follows, End
<1>9. h.fn \in Owners
  <2>1. b[n] \in NestStates
    BY <1>2, WholeLine DEF OnTheWay
  <2>2. QED
    BY <1>3, <2>1 DEF NestStates
<1> HIDE DEF e, b, op
<1>10. QED
  BY <1>3, <1>4, <1>5, <1>6, <1>7, <1>8, <1>9

LEMMA ReadLineKeeps == InventoryInv /\ ReadLine => InventoryInv'
<1> SUFFICES ASSUME InventoryInv, ReadLine PROVE InventoryInv'
  OBVIOUS
<1>1. PICK line \in Lines :
        /\ Fits(line) /\ scan' = ScanLine(scan, line) /\ nest' = End(line)
        /\ inCode' = inCode \union Compile(line)
        /\ skewed' = (skewed \/ Unbalanced(line))
  BY DEF ReadLine, End
<1>2. inventoryPc = "scan" /\ inventoryPc' = "scan" /\ inventory' = inventory
  BY DEF ReadLine
<1>3. PICK next : next = Enclosing(scan, line)
  OBVIOUS
<1>4. Follows(next, line)
  BY <1>1, <1>3, EnclosingFollows
<1>5. /\ scan' \in ScanStates /\ scan'.filed = scan.filed \union Entries(next, line)
      /\ scan'.current = next.current /\ scan'.pending = next.pending
      /\ scan'.depth = next.depth
  BY <1>1, <1>3, <1>4, LineFiled
<1>6. OnTheWay(line, Len(line.toks)) /\ End(line).level >= 0
  BY <1>1, WholeLine
<1>7. NestInv'
  BY <1>1, <1>6 DEF NestInv, OnTheWay, End
<1>8. skewed' \in BOOLEAN /\ (~skewed' => ~skewed /\ ~Unbalanced(line))
  BY <1>1 DEF InventoryInv
<1>9. FollowInv'
  <2>1. next.depth \in Int /\ Len(line.toks) \in Nat /\ Len(line.toks) <= Len(line.toks)
    BY <1>4, LineFacts, LinesCompile DEF Follows, ScanStates
  <2>2. ~skewed' => scan'.depth = nest'.level
    BY <1>1, <1>4, <1>5, <1>8 DEF Follows
  <2>3. nest'.fn # FileScope => scan'.current \in {nest'.fn, FileScope} /\ scan'.pending = FileScope
    BY <1>1, <1>4, <1>5, <2>1 DEF Follows, End
  <2>4. /\ nest'.awaiting # FileScope => scan'.pending \in {nest'.awaiting, FileScope}
        /\ nest'.awaiting # FileScope /\ scan'.pending = FileScope
             => scan'.current \in {nest'.awaiting, FileScope}
    BY <1>1, <1>4, <1>5 DEF Follows
  <2>5. QED
    BY <1>5, <2>1, <2>2, <2>3, <2>4 DEF FollowInv
<1>10. ASSUME NEW h \in inCode' PROVE h.fn \in Owners /\ Filed(h)'
  <2>1. CASE h \in inCode
    BY <1>5, <1>8, <2>1 DEF InventoryInv, Filed
  <2>2. CASE h \in Compile(line)
    BY <1>1, <1>4, <1>5, <1>8, <2>2, HatchFiled DEF Filed
  <2>3. QED
    BY <1>1, <2>1, <2>2
<1>11. QED
  BY <1>2, <1>5, <1>7, <1>8, <1>9, <1>10 DEF InventoryInv

LEMMA InventoryInvKept == InventoryInv /\ [InventoryNext]_inventoryVars => InventoryInv'
<1> SUFFICES ASSUME InventoryInv, [InventoryNext]_inventoryVars PROVE InventoryInv'
  OBVIOUS
<1>1. CASE StartScan
  <2>1. UNCHANGED <<scan, nest, skewed, inCode, inventory>> /\ inventoryPc' \in {"scan", "failed"}
    BY <1>1 DEF StartScan
  <2>2. QED
    BY <2>1 DEF InventoryInv, NestInv, FollowInv, Filed
<1>2. CASE ReadLine
  BY <1>2, ReadLineKeeps
<1>3. CASE FileInventory
  <2>1. UNCHANGED <<scan, nest, skewed, inCode>>
    BY <1>3 DEF FileInventory
  <2>2. inventoryPc' = "clean" => inventory' = "current" /\ Forbidden = {} /\ Unclassified = {}
    BY <1>3 DEF FileInventory
  <2>3. Forbidden' = Forbidden /\ Unclassified' = Unclassified
    BY <2>1 DEF Forbidden, Unclassified
  <2>4. QED
    BY <2>1, <2>2, <2>3 DEF InventoryInv, NestInv, FollowInv, Filed
<1>4. CASE UNCHANGED inventoryVars
  BY <1>4 DEF inventoryVars, InventoryInv, NestInv, FollowInv, Filed, Forbidden, Unclassified
<1>5. QED
  BY <1>1, <1>2, <1>3, <1>4 DEF InventoryNext

(* An entry that is in no function is covered only by a rule for "*". *)
LEMMA CoveredAtFileScope ==
  ASSUME NEW fn \in Owners, NEW op \in Hatches, Category(FileScope, op) # "unclassified"
  PROVE  Category(fn, op) # "unclassified"
<1>1. FileScope.head # "test" /\ FileScope.name = ""
  BY DEF FileScope, Fn
<1>2. <<"", op>> \in Ruled
  BY <1>1 DEF Category
<1>3. <<fn.name, op>> \in Ruled
  <2>1. CASE fn = FileScope
    BY <1>1, <1>2, <2>1
  <2>2. CASE \E l \in Lines : fn = Fn(l.head, l.name) \/ fn = Header(l)
    <3>1. PICK l \in Lines : fn = Fn(l.head, l.name) \/ fn = Header(l)
      BY <2>2
    <3>2. fn.name = l.name
      BY <3>1 DEF Fn, Header
    <3>3. QED
      BY <1>2, <3>2, InventoryAssumption DEF InventoryAssumption
  <2>3. QED
    BY <2>1, <2>2 DEF Owners
<1>4. CASE fn.head = "test"
  BY <1>4 DEF Category
<1>5. CASE fn.head # "test"
  BY <1>3, <1>5 DEF Category
<1>6. QED
  BY <1>4, <1>5

(***************************************************************************)
(* A clean inventory is complete, for any lines that compile, prototypes   *)
(* among them, any number of them and any rules: none of the hatches the   *)
(* compiler sees is lost, and none in a body is excused by the rule of     *)
(* another function, or of a prototype (InventoryIsComplete), in files     *)
(* that declare no function within another, as none of src/ does.          *)
(***************************************************************************)
THEOREM CleanInventoriesAreComplete == InventorySpec => []InventoryIsComplete
<1>1. InventoryInv => InventoryIsComplete
  <2> SUFFICES ASSUME InventoryInv, inventoryPc = "clean", NEW h \in inCode
               PROVE  /\ inventory = "current" /\ h.op # "forbidden"
                      /\ \E e \in scan.filed : e.op = h.op /\ e.line = h.line /\ e.hits >= h.hits
                      /\ h.fn # FileScope \/ (~skewed /\ h.outside /\ h.whole)
                           => Category(h.fn, h.op) # "unclassified"
    BY DEF InventoryInv, InventoryIsComplete
  <2>1. /\ inventory = "current" /\ Forbidden = {} /\ Unclassified = {}
        /\ Filed(h) /\ h.fn \in Owners
    BY DEF InventoryInv
  <2>2. PICK e \in scan.filed :
          /\ e.op = h.op /\ e.line = h.line /\ e.hits >= h.hits
          /\ h.fn # FileScope => e.fn \in {h.fn, FileScope}
          /\ ~skewed /\ h.outside /\ h.whole => e.fn = FileScope
    BY <2>1 DEF Filed
  <2>3. e.op # "forbidden" /\ Category(e.fn, e.op) # "unclassified"
    BY <2>1 DEF Forbidden, Unclassified
  <2>4. ASSUME h.fn # FileScope \/ (~skewed /\ h.outside /\ h.whole)
        PROVE  Category(h.fn, h.op) # "unclassified"
    <3>1. e.fn = h.fn \/ e.fn = FileScope
      BY <2>2, <2>4
    <3>2. Category(e.fn, h.op) # "unclassified" /\ h.op \in Hatches
      BY <2>2, <2>3 DEF InventoryInv, ScanStates
    <3>3. QED
      BY <2>1, <3>1, <3>2, CoveredAtFileScope
  <2>5. QED
    BY <2>1, <2>2, <2>3, <2>4
<1>2. QED
  BY <1>1, InventoryInvInit, InventoryInvKept, PTL DEF InventorySpec
=============================================================================
