---------------------------- MODULE MutationTest ----------------------------
(***************************************************************************)
(* scripts/mutation-test.py: the harness is tried on defects put into the  *)
(* port on purpose.  The original's output is recorded once for every case *)
(* where it is defined; each mutant is built and run on those cases until  *)
(* one differs.                                                            *)
(*                                                                         *)
(* A transcript is [events, data]: the events it tells of and everything   *)
(* else its records hold.  Silence is a program that wrote nothing.        *)
(***************************************************************************)
EXTENDS Naturals, FiniteSets

CONSTANTS
  Fixtures,     \* the (mode, fixture) cases, numbers in the order they run
  Defects,      \* the mutants defined, numbers in the order they are tried
  Detector,     \* "full", "event-only", "record-count" or "first-record"
  Points        \* what the original and the port do at a case: [c, san, port]

VARIABLES
  mutationPc,
  point,         \* ghost: case -> what is true there, once the case has run
  expected,      \* case -> the original's transcript
  defect, tried, \* the mutant under test, and the last case it has run
  verdicts,      \* mutant -> its status
  shown          \* ghost: caught mutant -> the case and what it wrote there

mutationVars == <<mutationPc, point, expected, defect, tried, verdicts, shown>>

Silence     == [written |-> FALSE, events |-> <<>>, data |-> 0]
Told(e, d)  == [written |-> TRUE, events |-> e, data |-> d]
Hung        == [written |-> TRUE, events |-> <<"hung">>, data |-> 0]

(* No program writes that it hung. *)
ASSUME MutationAssumption ==
  /\ Fixtures = 1 .. Cardinality(Fixtures) /\ Defects = 1 .. Cardinality(Defects)
  /\ Detector \in {"full", "event-only", "record-count", "first-record"}
  /\ \A p \in Points : p.c.out # Hung

(* The transcripts the points and the mutants choose from. *)
Reference == Told(<<"number", "done">>, 0)
Altered   == {Told(<<"number", "done">>, 1), Told(<<"string", "done">>, 0),
              Told(<<"number">>, 0), Silence}

(* The comparators.  The first line of a transcript, which the weakest one
   looks at, is its header, the same for every program that writes one. *)
DetectFull(a, b)        == a # b
DetectEventOnly(a, b)   == a.events # b.events
DetectRecordCount(a, b) == a.written # b.written \/ Cardinality(DOMAIN a.events) # Cardinality(DOMAIN b.events)
DetectFirstRecord(a, b) == a.written # b.written

Detect(a, b) ==
  CASE Detector = "full"         -> DetectFull(a, b)
    [] Detector = "event-only"   -> DetectEventOnly(a, b)
    [] Detector = "record-count" -> DetectRecordCount(a, b)
    [] Detector = "first-record" -> DetectFirstRecord(a, b)

MutationInit ==
  /\ mutationPc = "oracle"
  /\ point = <<>> /\ expected = [f \in {} |-> Silence]
  /\ defect = 1 /\ tried = 0
  /\ verdicts = <<>>
  /\ shown = [d \in {} |-> 0]

(* upstream_has_ub: a sanitizer that does not end is taken for a report. *)
UpstreamHasUb(san) == san \in {"report", "timeout"}

(* A slip: only a crash takes a case out. *)
ComparableUnlessCrashed(p) == p.c.rc = "ok"

(* oracle: is the case a valid point of comparison? *)
Comparable(p) == p.c.rc = "ok" /\ ~UpstreamHasUb(p.san)

(* The original is run on the next case.  Nothing catches it running out of
   time: the script stops with no report. *)
Oracle ==
  /\ mutationPc = "oracle" /\ Cardinality(DOMAIN point) < Cardinality(Fixtures)
  /\ LET f == Cardinality(DOMAIN point) + 1 IN
     \E p \in Points :
       /\ point' = [i \in 1 .. f |-> IF i = f THEN p ELSE point[i]]
       /\ expected' = IF Comparable(p)
                        THEN [i \in DOMAIN expected \union {f} |->
                                IF i = f THEN p.c.out ELSE expected[i]]
                        ELSE expected
       /\ mutationPc' = IF p.c.rc = "timeout" THEN "stopped" ELSE "oracle"
  /\ UNCHANGED <<defect, tried, verdicts, shown>>

BeginMutants ==
  /\ mutationPc = "oracle" /\ Cardinality(DOMAIN point) = Cardinality(Fixtures)
  /\ mutationPc' = "build"
  /\ UNCHANGED <<point, expected, defect, tried, verdicts, shown>>

Judged(status) ==
  /\ verdicts' = [d \in 1 .. defect |-> IF d = defect THEN status ELSE verdicts[d]]
  /\ defect' = defect + 1 /\ tried' = 0

(* A copy of the tree is changed at the one place the pattern matches, and
   built. *)
Build ==
  /\ mutationPc = "build" /\ defect \in Defects
  /\ \/ mutationPc' = "detect" /\ UNCHANGED <<defect, tried, verdicts>>
     \/ /\ \E s \in {"pattern_stale", "build_timeout", "build_failed"} : Judged(s)
        /\ UNCHANGED mutationPc
  /\ UNCHANGED <<point, expected, shown>>

(* The mutant is run on the next case that has an expectation.  It may do
   what the port does there, anything else, or not end. *)
RunMutant ==
  /\ mutationPc = "detect"
  /\ \E f \in DOMAIN expected :
       /\ f > tried /\ \A g \in DOMAIN expected : g > tried => f <= g
       /\ \E got \in {point[f].port, Hung} \union Altered :
            IF got = Hung \/ Detect(expected[f], got)
              THEN /\ shown' = [d \in DOMAIN shown \union {defect} |->
                                  IF d = defect THEN [at |-> f, got |-> got] ELSE shown[d]]
                   /\ Judged("caught")
                   /\ mutationPc' = "build"
              ELSE tried' = f /\ UNCHANGED <<mutationPc, defect, verdicts, shown>>
  /\ UNCHANGED <<point, expected>>

Survive ==
  /\ mutationPc = "detect" /\ \A f \in DOMAIN expected : f <= tried
  /\ Judged("survived")
  /\ mutationPc' = "build"
  /\ UNCHANGED <<point, expected, shown>>

ReportMutants ==
  /\ mutationPc = "build" /\ defect \notin Defects
  /\ mutationPc' = IF \A d \in Defects : verdicts[d] = "caught" THEN "passed" ELSE "failed"
  /\ UNCHANGED <<point, expected, defect, tried, verdicts, shown>>

MutationNext == Oracle \/ BeginMutants \/ Build \/ RunMutant \/ Survive \/ ReportMutants

MutationSpec == MutationInit /\ [][MutationNext]_mutationVars

-----------------------------------------------------------------------------
(***************************************************************************)
(* "Counting them would let this script certify itself": a mutant is never *)
(* caught by undefined behaviour of the original that a sanitizer reports, *)
(* and where it did just what the port does, it is caught only because the *)
(* port itself differs from the original.                                  *)
(***************************************************************************)
CaughtByTheDefect ==
  \A d \in DOMAIN shown :
    LET p == point[shown[d].at] IN
    /\ p.san # "report"
    /\ shown[d].got = p.port => p.port # p.c.out
=============================================================================
