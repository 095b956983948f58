-------------------------- MODULE DifferentialRun --------------------------
(***************************************************************************)
(* main of scripts/differential.py, run once for each label: the jobs of   *)
(* the label are compared by a pool of threads, the findings are taken in  *)
(* the order the jobs complete, sorted, and written out, the transcripts   *)
(* of all labels into one directory.  make verify runs it for the fixed    *)
(* corpus and then for the JSONTestSuite.                                  *)
(*                                                                         *)
(* What compare makes of a job is one of the outcomes of Comparison; a     *)
(* process may be killed between any two steps, and the files stay.        *)
(***************************************************************************)
EXTENDS Integers, FiniteSets, SequencesExt

CONSTANTS
  Labels,      \* the runs, in order: a sequence of labels
  JobsOf,      \* the (input, mode) pairs of a label, numbers in the order of the report
  Workers,     \* threads of the pool
  Outcomes,    \* what compare may make of a job: kinds, "none" or "raises"
  Kills        \* whether a run may be killed

ASSUME DifferentialAssumption ==
  /\ \A i \in 1 .. Len(Labels) : JobsOf[Labels[i]] \in SUBSET Nat
  /\ Workers \in Nat \ {0}
  /\ Kills \in BOOLEAN

VARIABLES
  runNo, diffPc,
  queued, running,     \* the jobs not started, and those in a thread
  completed,           \* job -> outcome, for those no one has taken yet
  divergences,         \* the list the main thread collects: [job, kind]
  cases,               \* artifacts/differential-cases: the findings with a file
  summaries,           \* by label: the findings of its summary, or Absent
  matrices             \* by label: the kinds its source matrix counts, or Absent

diffVars == <<runNo, diffPc, queued, running, completed, divergences,
              cases, summaries, matrices>>

Absent == [written |-> FALSE, findings |-> <<>>]
Holds(f) == [written |-> TRUE, findings |-> f]

LabelSet == {Labels[i] : i \in 1 .. Len(Labels)}
Label    == Labels[runNo]

DiffInit ==
  /\ runNo = 0 /\ diffPc = "idle"
  /\ queued = {} /\ running = {}
  /\ completed = [j \in {} |-> "none"]
  /\ divergences = <<>>
  /\ cases = {}
  /\ summaries = [l \in LabelSet |-> Absent] /\ matrices = [l \in LabelSet |-> Absent]

Disk == <<cases, summaries, matrices>>

(* The sanity check has passed, and every job is submitted. *)
Submit ==
  /\ diffPc = "idle" /\ runNo < Len(Labels)
  /\ runNo' = runNo + 1
  /\ queued' = JobsOf[Label']
  /\ diffPc' = "collect"
  /\ divergences' = <<>>
  /\ UNCHANGED <<running, completed, Disk>>

(* A thread takes the first job of the queue. *)
Take ==
  /\ diffPc \in {"collect", "drain"}
  /\ queued # {} /\ Cardinality(running) < Workers
  /\ \E j \in queued :
       /\ \A i \in queued : j <= i
       /\ queued' = queued \ {j} /\ running' = running \union {j}
  /\ UNCHANGED <<runNo, diffPc, completed, divergences, Disk>>

(* compare returns, or raises; the future holds which. *)
Complete ==
  /\ \E j \in running, o \in Outcomes :
       /\ running' = running \ {j}
       /\ completed' = [i \in DOMAIN completed \union {j} |->
                          IF i = j THEN o ELSE completed[i]]
  /\ UNCHANGED <<runNo, diffPc, queued, divergences, Disk>>

(* One turn of the loop over as_completed.  An exception leaves the loop,
   and the pool first lets every job it was given run. *)
Collect ==
  /\ diffPc = "collect"
  /\ \E j \in DOMAIN completed :
       /\ completed' = [i \in DOMAIN completed \ {j} |-> completed[i]]
       /\ IF completed[j] = "raises"
            THEN diffPc' = "drain" /\ UNCHANGED divergences
            ELSE /\ divergences' = IF completed[j] = "none" THEN divergences
                                   ELSE Append(divergences, [job |-> j, kind |-> completed[j]])
                 /\ UNCHANGED diffPc
  /\ UNCHANGED <<runNo, queued, running, Disk>>

Collected == queued = {} /\ running = {}

(* The exception ends the process; nothing has been written. *)
Abort ==
  /\ diffPc = "drain" /\ Collected
  /\ diffPc' = "idle"
  /\ completed' = [j \in {} |-> "none"]
  /\ UNCHANGED <<runNo, queued, running, divergences, Disk>>

(* list.sort: the same findings, in the order of their jobs. *)
Sorted(s) ==
  {[i \in 1 .. Len(s) |-> s[p[i]]] :
     p \in {q \in Bijection(1 .. Len(s), 1 .. Len(s)) :
             \A i, j \in 1 .. Len(s) : i < j => s[q[i]].job <= s[q[j]].job}}

Sort ==
  /\ diffPc = "collect" /\ Collected /\ DOMAIN completed = {}
  /\ divergences' \in Sorted(divergences)
  /\ diffPc' = "unlink"
  /\ UNCHANGED <<runNo, queued, running, completed, Disk>>

(* A slip: the old files stay. *)
UnlinkNot ==
  /\ diffPc = "unlink"
  /\ diffPc' = "cases"
  /\ UNCHANGED <<runNo, queued, running, completed, divergences, Disk>>

(* Every file of the directory goes, whoever wrote it, one by one. *)
Unlink ==
  /\ diffPc = "unlink"
  /\ IF cases = {} THEN diffPc' = "cases" /\ UNCHANGED cases
     ELSE /\ \E f \in cases : cases' = cases \ {f}
          /\ UNCHANGED diffPc
  /\ UNCHANGED <<runNo, queued, running, completed, divergences,
                 summaries, matrices>>

(* A case has one file, whatever was found there before. *)
WriteCase ==
  /\ diffPc = "cases"
  /\ IF ToSet(divergences) \subseteq cases THEN diffPc' = "summary" /\ UNCHANGED cases
     ELSE /\ \E i \in 1 .. Len(divergences) :
               /\ divergences[i] \notin cases
               /\ \A h \in 1 .. i - 1 : divergences[h] \in cases
               /\ cases' = {f \in cases : f.job # divergences[i].job} \union {divergences[i]}
          /\ UNCHANGED diffPc
  /\ UNCHANGED <<runNo, queued, running, completed, divergences,
                 summaries, matrices>>

WriteSummary ==
  /\ diffPc = "summary"
  /\ summaries' = [summaries EXCEPT ![Label] = Holds(divergences)]
  /\ diffPc' = "matrix"
  /\ UNCHANGED <<runNo, queued, running, completed, divergences, cases, matrices>>

(* source_matrix counts these kinds and no other. *)
Counted(f) == f.kind \in {"divergence", "upstream_ub", "timeout"}

WriteMatrix ==
  /\ diffPc = "matrix"
  /\ matrices' = [matrices EXCEPT ![Label] = Holds(SelectSeq(divergences, Counted))]
  /\ diffPc' = "idle"
  /\ UNCHANGED <<runNo, queued, running, completed, divergences, cases, summaries>>

Kill ==
  /\ Kills /\ diffPc # "idle"
  /\ diffPc' = "idle"
  /\ queued' = {} /\ running' = {} /\ completed' = [j \in {} |-> "none"]
  /\ divergences' = <<>>
  /\ UNCHANGED <<runNo, Disk>>

DiffNext ==
  \/ Submit \/ Take \/ Complete \/ Collect \/ Abort \/ Sort \/ Unlink \/ WriteCase
  \/ WriteSummary \/ WriteMatrix \/ Kill

DiffSpec == DiffInit /\ [][DiffNext]_diffVars

-----------------------------------------------------------------------------
(***************************************************************************)
(* The evidence of a run that goes to its end agrees with itself, whatever *)
(* order its jobs completed in and whatever runs killed or aborted earlier *)
(* had left behind: the summary lists its findings in the order of the     *)
(* jobs, each once, and the case files are those findings and no others.   *)
(***************************************************************************)
EvidenceAgrees ==
  diffPc = "matrix" =>
    LET f == summaries[Label].findings IN
    /\ cases = ToSet(f)
    /\ \A i \in 1 .. Len(f) - 1 : f[i].job < f[i + 1].job
=============================================================================
