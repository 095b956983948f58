-------------------------- MODULE TranscriptSweeps --------------------------
(***************************************************************************)
(* The two scripts that judge transcripts without comparing them: the      *)
(* coverage of scripts/state-machine.py and the sweep of                   *)
(* scripts/invariants.py.  Both programs are run on every corpus there is  *)
(* in every mode; the one script collects the transitions seen, the other  *)
(* the rules broken.  What a single transcript shows is the business of    *)
(* TranscriptRules.                                                        *)
(***************************************************************************)
EXTENDS Naturals, Sequences

CONSTANTS
  SweepRuns,     \* the loops over corpora, modes and programs: [corpus, mode, program]
  Transitions,   \* those the specification names
  Strays         \* others a program may show

ASSUME SweepAssumption ==
  /\ \A i \in 1 .. Len(SweepRuns) : SweepRuns[i].program \in {"c", "zig"}
  /\ Transitions \intersect Strays = {}

VARIABLES
  sweepPc,       \* "coverage", "sweep", "done" or "raised"
  runAt,         \* the run of the loops that is next
  fetched,       \* the corpora a clean checkout lacks are there
  perImpl,       \* program -> transitions observed
  onFixtures,    \* those the port showed on the fixtures alone
  results,       \* program -> the runs in which a rule was broken
  coverageExit, sweepExit,
  broke          \* ghost: some transcript broke a rule

sweepVars == <<sweepPc, runAt, fetched, perImpl, onFixtures, results,
               coverageExit, sweepExit, broke>>

SweepInit ==
  /\ sweepPc = "coverage" /\ runAt = 1
  /\ fetched \in BOOLEAN
  /\ perImpl = [p \in {"c", "zig"} |-> {}]
  /\ onFixtures = {}
  /\ results = [p \in {"c", "zig"} |-> {}] /\ broke = FALSE
  /\ coverageExit = "none" /\ sweepExit = "none"

More == runAt <= Len(SweepRuns)
This == SweepRuns[runAt]

(* A corpus that is not there has no files. *)
NoCorpus ==
  /\ sweepPc \in {"coverage", "sweep"} /\ More
  /\ This.corpus # "fixtures" /\ ~fetched
  /\ runAt' = runAt + 1
  /\ UNCHANGED <<sweepPc, fetched, perImpl, onFixtures, results, coverageExit,
                 sweepExit, broke>>

Here == More /\ (This.corpus = "fixtures" \/ fetched)

(* The modes of the two scripts: only the sweep has those where memory
   fails, and the original is not run in them. *)
Walked == This.mode # "oom"
Swept  == This.mode # "oom" \/ This.program = "zig"

OtherMode ==
  /\ sweepPc = "coverage" /\ Here /\ ~Walked
  /\ runAt' = runAt + 1
  /\ UNCHANGED <<sweepPc, fetched, perImpl, onFixtures, results, coverageExit,
                 sweepExit, broke>>

(* run and walk: the transitions of one batch.  A program that fails ends
   the script, and so does one that takes too long. *)
WalkRun ==
  /\ sweepPc = "coverage" /\ Here /\ Walked
  /\ \/ /\ \E seen \in SUBSET (Transitions \union Strays) :
             /\ perImpl' = [perImpl EXCEPT ![This.program] = @ \union seen]
             /\ onFixtures' = IF This.corpus = "fixtures" /\ This.program = "zig"
                                THEN onFixtures \union seen ELSE onFixtures
        /\ runAt' = runAt + 1
        /\ UNCHANGED sweepPc
     \/ sweepPc' = "raised" /\ UNCHANGED <<runAt, perImpl, onFixtures>>
  /\ UNCHANGED <<fetched, results, coverageExit, sweepExit, broke>>

Unspecified == perImpl.zig \ Transitions
OnlyC       == perImpl.c \ perImpl.zig
OnlyZig     == perImpl.zig \ perImpl.c

(* A slip, and once the code: what any corpus covers is covered. *)
UncoveredAnywhere == Transitions \ perImpl.zig

UncoveredByFixtures == Transitions \ onFixtures

CoverageFails == Unspecified \union OnlyC \union OnlyZig \union UncoveredByFixtures # {}

EndCoverage ==
  /\ sweepPc = "coverage" /\ ~More
  /\ coverageExit' = IF CoverageFails THEN "failed" ELSE "clean"
  /\ sweepPc' = "sweep" /\ runAt' = 1
  /\ UNCHANGED <<fetched, perImpl, onFixtures, results, sweepExit, broke>>

SkipOom ==
  /\ sweepPc = "sweep" /\ Here /\ ~Swept
  /\ runAt' = runAt + 1
  /\ UNCHANGED <<sweepPc, fetched, perImpl, onFixtures, results, coverageExit,
                 sweepExit, broke>>

(* run_binary and check_text.  The return code is not looked at: a program
   that dies has fewer transcripts to break a rule in. *)
CheckRun ==
  /\ sweepPc = "sweep" /\ Here /\ Swept
  /\ \/ /\ \E breaks \in BOOLEAN :
             /\ broke' = (broke \/ breaks)
             /\ results' = IF breaks
                  THEN [results EXCEPT ![This.program] = @ \union {<<This.corpus, This.mode>>}]
                  ELSE results
        /\ runAt' = runAt + 1
        /\ UNCHANGED sweepPc
     \/ sweepPc' = "raised" /\ UNCHANGED <<runAt, results, broke>>
  /\ UNCHANGED <<fetched, perImpl, onFixtures, coverageExit, sweepExit>>

SweepFails == results.c \union results.zig # {}

EndSweep ==
  /\ sweepPc = "sweep" /\ ~More
  /\ sweepExit' = IF SweepFails THEN "failed" ELSE "clean"
  /\ sweepPc' = "done"
  /\ UNCHANGED <<runAt, fetched, perImpl, onFixtures, results, coverageExit, broke>>

SweepNext == NoCorpus \/ OtherMode \/ WalkRun \/ EndCoverage \/ SkipOom \/ CheckRun \/ EndSweep

SweepSpec == SweepInit /\ [][SweepNext]_sweepVars

-----------------------------------------------------------------------------
(* Coverage that passes means that both programs move only as specified,
   the original included: it checks the specification against pdjson.c as
   much as the port. *)
CoverageIsHonest ==
  coverageExit = "clean" => perImpl.c \union perImpl.zig \subseteq Transitions

(* Nor does it lean on the fetched corpora: the fixtures show every
   transition by themselves. *)
FixturesSuffice == coverageExit = "clean" => onFixtures = Transitions

(* A clean sweep has met no transcript that breaks a rule. *)
SweepReportsAll == sweepExit = "clean" => ~broke

(***************************************************************************)
(* "passing here and failing in a clean checkout" is what must not happen, *)
(* in a script that exits 0 nor in the sweep after it: a clean exit is     *)
(* owed to the fixtures every checkout has, and hides nothing either       *)
(* program showed.                                                         *)
(***************************************************************************)
SweepsAreHonest == CoverageIsHonest /\ FixturesSuffice /\ SweepReportsAll
=============================================================================
