---------------------------- MODULE SuiteReports ----------------------------
(***************************************************************************)
(* The three scripts that hold the port against a suite and sum up:        *)
(* scripts/original-tests.py (the original's assertions, and its two tools *)
(* compared on the fixtures), scripts/conformance_report.py (whether each  *)
(* document is accepted) and scripts/hexfloat_oracle.py --compare (the     *)
(* bits of literals).                                                      *)
(*                                                                         *)
(* What a program does with a case is one of a few words; what the script  *)
(* makes of it is what its report holds.                                   *)
(***************************************************************************)
EXTENDS Naturals, FiniteSets

CONSTANTS
  Assertions,   \* those of tests.c
  SuiteCases         \* fixtures, documents or literals, numbers in their order

ASSUME ReportAssumption == IsFiniteSet(Assertions) /\ SuiteCases = 1 .. Cardinality(SuiteCases)

VARIABLES
  reportPc,   \* "idle", "run", "ended" or "raised"
  script,     \* which of the three: "tests", "conformance", "hexfloat"
  did,        \* ghost: case -> what the two programs, or three, did there
  holds,      \* ghost: program -> the assertions that hold of it
  told,       \* program -> the assertions its build of tests.c told of
  rows,       \* what the report counts against "zig", the port, or "libc": <<who, case>>
  conforming, \* those it counts for the original
  probed,     \* zig_probe_available
  reportExit

reportVars == <<reportPc, script, did, holds, told, rows, conforming, probed, reportExit>>

Backend == {"c", "zig"}

ReportInit ==
  /\ reportPc = "idle"
  /\ script \in {"tests", "conformance", "hexfloat"}
  /\ did = <<>>
  /\ holds = [b \in Backend |-> {}] /\ told = [b \in Backend |-> {}]
  /\ rows = {} /\ conforming = {}
  /\ probed = FALSE
  /\ reportExit = "none"

AllDone  == DOMAIN did = SuiteCases
Upcoming == Cardinality(DOMAIN did) + 1
Noted(d) == did' = [i \in 1 .. Upcoming |-> IF i = Upcoming THEN d ELSE did[i]]

Begins(s)  == reportPc = "idle" /\ script = s
Running(s) == reportPc = "run" /\ script = s

(* A build that fails, a binary that is missing, a reference that fails its
   own test. *)
Unbuilt ==
  /\ reportPc = "idle"
  /\ reportPc' = "ended" /\ reportExit' = "failed"
  /\ UNCHANGED <<script, did, holds, told, rows, conforming, probed>>

-----------------------------------------------------------------------------
(* original-tests.py.  A build of tests.c that dies has told of the tests
   whose lines had left its buffer, as many as they are, a last line cut
   short left out.  The return code is only recorded. *)
RunAssertions ==
  /\ Begins("tests")
  /\ holds' \in [Backend -> SUBSET Assertions]
  /\ told' \in [Backend -> SUBSET Assertions]
  /\ reportPc' = "run"
  /\ UNCHANGED <<script, did, rows, conforming, probed, reportExit>>

(* A slip: the tests both builds told of. *)
PerTestOfBoth == told.c \intersect told.zig

(* per_test: one entry for each test the original told of. *)
PerTest == told.c

PassedTests == {a \in PerTest : a \in told.zig /\ a \in holds.zig}

(* stream.c and pretty.c on the next fixture: the return codes and what they
   wrote.  Nothing catches a tool that runs out of its 30 seconds. *)
CompareTools ==
  /\ Running("tests") /\ ~AllDone
  /\ \E c, z \in {"A", "B", "hang"} :
       /\ Noted([c |-> c, zig |-> z])
       /\ rows' = IF c # z THEN rows \union {<<"zig", Upcoming>>} ELSE rows
       /\ reportPc' = IF "hang" \in {c, z} THEN "raised" ELSE reportPc
  /\ UNCHANGED <<script, holds, told, conforming, probed, reportExit>>

SumUpTests ==
  /\ Running("tests") /\ AllDone
  /\ reportExit' = IF PassedTests # PerTest \/ rows # {} THEN "failed" ELSE "clean"
  /\ reportPc' = "ended"
  /\ UNCHANGED <<script, did, holds, told, rows, conforming, probed>>

-----------------------------------------------------------------------------
(* conformance_report.py.  A corpus that was not fetched is skipped. *)
SkipSuite ==
  /\ Begins("conformance")
  /\ reportPc' = "ended" /\ reportExit' = "clean"
  /\ UNCHANGED <<script, did, holds, told, rows, conforming, probed>>

StartSuite ==
  /\ Begins("conformance")
  /\ reportPc' = "run"
  /\ UNCHANGED <<script, did, holds, told, rows, conforming, probed, reportExit>>

(* A slip: a program that does not end well has not accepted. *)
AcceptedOrNot(end) == IF end = "accepts" THEN end ELSE "rejects"

(* accepted: True, False, or None for a program that did not end well. *)
Accepted(end) == IF end \in {"crash", "hang"} THEN "None" ELSE end

(* The answers that conform, by the first letter of the document's name. *)
Conforms(kind, answer) ==
  CASE kind = "y" -> answer = "accepts"
    [] kind = "n" -> answer = "rejects"
    [] kind = "i" -> TRUE

Judge ==
  /\ Running("conformance") /\ ~AllDone
  /\ \E kind \in {"y", "n", "i", "other"}, c, z \in {"accepts", "rejects", "crash", "hang"} :
       /\ Noted([kind |-> kind, c |-> c, zig |-> z])
       /\ IF kind = "other" THEN UNCHANGED <<rows, conforming>>
          ELSE /\ rows' = IF Accepted(c) = Accepted(z) THEN rows
                                                       ELSE rows \union {<<"zig", Upcoming>>}
               /\ conforming' = IF Conforms(kind, Accepted(c)) THEN conforming \union {Upcoming}
                                                               ELSE conforming
  /\ UNCHANGED <<reportPc, script, holds, told, probed, reportExit>>

-----------------------------------------------------------------------------
(* hexfloat_oracle.py: zig_bits_batch asks the port for all its answers at
   once and has none if the probe is missing, fails or gives too few.  Nothing
   catches a probe that runs out of its 300 seconds, or a line that is no
   number. *)
StartLiterals ==
  /\ Begins("hexfloat")
  /\ \/ probed' \in BOOLEAN /\ reportPc' = "run"
     \/ UNCHANGED probed /\ reportPc' = "raised"
  /\ UNCHANGED <<script, did, holds, told, rows, conforming, reportExit>>

(* Whose bits are not the reference's. *)
Wrong(oracle, c, z) ==
  {who \in {"libc", "zig"} : \/ who = "libc" /\ c # oracle
                             \/ who = "zig" /\ probed /\ z # oracle}

(* compare: a literal the reference does not take is passed over. *)
CompareBits ==
  /\ Running("hexfloat") /\ ~AllDone
  /\ \E oracle \in {"A", "B", "ValueError"}, c, z \in {"A", "B"} :
       /\ Noted([oracle |-> oracle, c |-> c, zig |-> z])
       /\ rows' = IF oracle = "ValueError" THEN rows
                  ELSE rows \union {<<who, Upcoming>> : who \in Wrong(oracle, c, z)}
  /\ UNCHANGED <<reportPc, script, holds, told, conforming, probed, reportExit>>

SumUp ==
  /\ reportPc = "run" /\ script # "tests" /\ AllDone
  /\ reportExit' = IF rows # {} THEN "failed" ELSE "clean"
  /\ reportPc' = "ended"
  /\ UNCHANGED <<script, did, holds, told, rows, conforming, probed>>

ReportsNext ==
  \/ Unbuilt \/ RunAssertions \/ CompareTools \/ SumUpTests \/ SkipSuite \/ StartSuite
  \/ Judge \/ StartLiterals \/ CompareBits \/ SumUp

ReportsSpec == ReportInit /\ [][ReportsNext]_reportVars

-----------------------------------------------------------------------------
Clean(s) == script = s /\ reportExit = "clean"

(* Every test the original's build told of is one the port's build told of
   and passed, and the tools did alike.  Where as many passed as there are,
   which is what the ledger asks for (C-01), none was left untold. *)
TestsPassedByThePort ==
  Clean("tests") =>
    /\ told.c \subseteq told.zig \intersect holds.zig
    /\ Cardinality(PassedTests) = Cardinality(Assertions) =>
         Assertions \subseteq told.c \intersect told.zig \intersect holds.zig
    /\ \A i \in DOMAIN did : did[i].c = did[i].zig

(* Where either program has an answer for a document of the suite, the other
   has the same, and what counts as the original's conforming answer is one. *)
Answers == {"accepts", "rejects"}
DocumentsAgreedOn ==
  Clean("conformance") =>
    \A i \in DOMAIN did : did[i].kind # "other" =>
      /\ {did[i].c, did[i].zig} \intersect Answers # {} => did[i].c = did[i].zig
      /\ i \in conforming /\ did[i].kind # "i" =>
           did[i].c = IF did[i].kind = "y" THEN "accepts" ELSE "rejects"

(* The port gives the bits of the reference for every literal that has some. *)
GivesTheBits == \A i \in DOMAIN did : did[i].oracle # "ValueError" => did[i].zig = did[i].oracle

BitsAreTheReference == Clean("hexfloat") /\ probed => GivesTheBits

(***************************************************************************)
(* What an exit of 0 of the three scripts says of the port, over programs  *)
(* that may die at any case, and have told of a part: no test the original *)
(* told of is one the port failed or did not reach, and with the ledger's  *)
(* count all of them passed; a program that dies or hangs on a document is *)
(* never taken to have rejected it as the other did; and where the port    *)
(* was asked for its bits, they are the reference's.  It does not say that *)
(* there was anything to judge: two programs that both die on a document   *)
(* agree, a suite that was not fetched is skipped, and a port that was not *)
(* asked has no bits to differ.                                            *)
(***************************************************************************)
ReportsAreHonest == TestsPassedByThePort /\ DocumentsAgreedOn /\ BitsAreTheReference
=============================================================================
