--------------------------- MODULE VerifyPipeline ---------------------------
(***************************************************************************)
(* make verify: the steps of the Makefile run in their order until one     *)
(* fails; most of them leave an artifact, scripts/report.py quotes what    *)
(* they say, and the last step holds the ledger of claims, CLAIMS.json,    *)
(* against the artifacts that are there.                                   *)
(*                                                                         *)
(* A piece of evidence measures one figure of the code.  Its artifact      *)
(* lasts until the target that writes it runs again, whatever happens to   *)
(* the code meanwhile.                                                     *)
(***************************************************************************)
EXTENDS Naturals, SequencesExt

CONSTANTS
  Steps,       \* the evidence the pipeline gathers, in its order
  Elsewhere,   \* the evidence claims cite that only targets of their own gather
  Moves        \* bound: what is done by hand between pipelines

ASSUME PipelineAssumption ==
  /\ Steps \in Seq(STRING)
  /\ ToSet(Steps) \intersect Elsewhere = {} /\ "fuzz" \notin Elsewhere
  /\ Moves \in Nat

VARIABLES
  pipePc,      \* "idle", "run", "report" or "claims"
  stepNo,
  code,        \* what each measurement of the present tree gives
  artifact,    \* what is written under artifacts/
  sessions,    \* the logs of the fuzzer, by length
  text,        \* the figures the claims state
  block,       \* and those of the generated block of README.md
  verdict,     \* of the last pipeline, while the tree stays as it is
  moves        \* made by hand so far

pipeVars == <<pipePc, stepNo, code, artifact, sessions, text, block, verdict, moves>>

Evidence == ToSet(Steps) \union Elsewhere

(* Two figures a claim may state, and one no check lets pass. *)
Stated == {"one", "other"}
Figure == Stated \union {"bad"}

(* current: the code has not changed since. *)
Measured(f)   == [figure |-> f, current |-> TRUE]
Missing       == [figure |-> "missing", current |-> FALSE]
Stale(files)  == [e \in DOMAIN files |-> [files[e] EXCEPT !.current = FALSE]]

PipeInit ==
  /\ pipePc = "idle" /\ stepNo = 0
  /\ code \in [Evidence -> Figure]
  /\ artifact = [e \in Evidence |-> Missing]
  /\ sessions = [s \in {"verify", "long"} |-> Missing]
  /\ text = [e \in Evidence |-> "one"] /\ block = text
  /\ verdict = "none" /\ moves = 0

ByHand == pipePc = "idle" /\ moves < Moves /\ moves' = moves + 1

(* The code changes between two pipelines. *)
Edit ==
  /\ ByHand
  /\ code' \in [Evidence -> Figure]
  /\ artifact' = Stale(artifact) /\ sessions' = Stale(sessions)
  /\ verdict' = "none"
  /\ UNCHANGED <<pipePc, stepNo, text, block>>

Restate ==
  /\ ByHand
  /\ \E e \in Evidence, f \in Stated : text' = [text EXCEPT ![e] = f]
  /\ verdict' = "none"
  /\ UNCHANGED <<pipePc, stepNo, code, artifact, sessions, block>>

(* What a measurement leaves: an artifact, or for the fuzzer a log. *)
Gather(e, session) ==
  IF e = "fuzz"
    THEN /\ sessions' = [sessions EXCEPT ![session] = Measured(code[e])]
         /\ UNCHANGED artifact
    ELSE /\ artifact' = [artifact EXCEPT ![e] = Measured(code[e])]
         /\ UNCHANGED sessions

(* A target run by itself: make differential, make mutation, make fuzz with
   a session longer than the pipeline's. *)
Target ==
  /\ ByHand
  /\ \E e \in Evidence : Gather(e, "long")
  /\ UNCHANGED <<pipePc, stepNo, code, text, block, verdict>>

StartVerify ==
  /\ pipePc = "idle"
  /\ pipePc' = "run" /\ stepNo' = 1 /\ verdict' = "none"
  /\ UNCHANGED <<moves, code, artifact, sessions, text, block>>

(* A slip: a step whose artifact is there is taken for done. *)
RunStepOnce ==
  /\ pipePc = "run" /\ stepNo <= Len(Steps)
  /\ LET e == Steps[stepNo] IN
     /\ IF artifact[e] # Missing THEN UNCHANGED <<artifact, sessions>> ELSE Gather(e, "verify")
     /\ IF artifact'[e].figure = "bad" THEN pipePc' = "idle" /\ stepNo' = 0 /\ verdict' = "failed"
                                       ELSE stepNo' = stepNo + 1 /\ UNCHANGED <<pipePc, verdict>>
  /\ UNCHANGED <<moves, code, text, block>>

(* A step writes what it finds and fails if that is bad. *)
RunStep ==
  /\ pipePc = "run" /\ stepNo <= Len(Steps)
  /\ LET e == Steps[stepNo] IN
     /\ Gather(e, "verify")
     /\ IF code[e] = "bad" THEN pipePc' = "idle" /\ stepNo' = 0 /\ verdict' = "failed"
                           ELSE stepNo' = stepNo + 1 /\ UNCHANGED <<pipePc, verdict>>
  /\ UNCHANGED <<moves, code, text, block>>

(* newest_fuzz_session: the longest one. *)
Quoted == IF sessions["long"] # Missing THEN sessions["long"] ELSE sessions["verify"]

(* report.py writes the verification report, which is where a claim about
   the fuzzer looks, and the block of README.md. *)
WriteReport ==
  /\ pipePc = "run" /\ stepNo > Len(Steps)
  /\ artifact' = [e \in Evidence |-> IF e = "fuzz" THEN Quoted ELSE artifact[e]]
  /\ block' = text
  /\ pipePc' = "claims"
  /\ UNCHANGED <<moves, stepNo, code, sessions, text, verdict>>

(* validate-claims.py: every claim has its artifact and its check holds
   there; the block is that of the ledger.  audit-claims.py: the figure a
   claim states is in the artifact it cites. *)
Validates == block = text /\ \A e \in Evidence : artifact[e].figure \in Stated
Audits    == \A e \in Evidence : artifact[e].figure = text[e]

CheckClaims ==
  /\ pipePc = "claims"
  /\ verdict' = IF Validates /\ Audits THEN "ok" ELSE "failed"
  /\ pipePc' = "idle" /\ stepNo' = 0
  /\ UNCHANGED <<moves, code, artifact, sessions, text, block>>

Interrupt ==
  /\ pipePc # "idle"
  /\ pipePc' = "idle" /\ stepNo' = 0
  /\ UNCHANGED <<moves, code, artifact, sessions, text, block, verdict>>

PipeNext ==
  \/ Edit \/ Restate \/ Target \/ StartVerify \/ RunStep \/ WriteReport \/ CheckClaims \/ Interrupt

PipeSpec == PipeInit /\ [][PipeNext]_pipeVars

-----------------------------------------------------------------------------
(***************************************************************************)
(* VERIFY OK says of the present tree what the ledger says of what the     *)
(* pipeline itself measures: none of it is bad, and each gives the figure  *)
(* its claim states, whatever was left by earlier runs, interrupted or     *)
(* not.  It does not say so of the fuzzer's figure, which is that of the   *)
(* longest session, nor of what other targets write (ValidatedIsCurrent).  *)
(***************************************************************************)
VerifiedMeansClaimed ==
  verdict = "ok" =>
    \A e \in ToSet(Steps) : code[e] # "bad" /\ (e # "fuzz" => text[e] = code[e])

(***************************************************************************)
(* scripts/validate-claims.py says of itself: "Run by `make verify` as the *)
(* last step, so it validates artifacts that were just produced rather     *)
(* than whatever happened to be lying around".                             *)
(***************************************************************************)
ValidatedIsCurrent == verdict = "ok" => \A e \in Evidence : artifact[e].current
=============================================================================
