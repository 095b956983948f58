------------------------------ MODULE Minimize ------------------------------
(***************************************************************************)
(* minimize of fuzz/fuzz.py: an input that shows a finding of some kind is *)
(* cut down chunk by chunk while the kind survives, over a bounded number  *)
(* of trials.                                                              *)
(*                                                                         *)
(* An input is a sequence of distinct bytes.  What differs says of one is  *)
(* chosen the first time it is asked, and remembered: the programs are     *)
(* deterministic.                                                          *)
(***************************************************************************)
EXTENDS Integers, Sequences, Functions

CONSTANTS
  Length,     \* of the input found
  Budget      \* trials (400)

ASSUME MinimizeAssumption == Length \in Nat \ {0} /\ Budget \in Nat

VARIABLES
  best, chunk, at, shrunk, budget,    \* the locals; at is i
  answers,                            \* what differs said, by input
  trimmed                             \* minimize has returned

minimizeVars == <<best, chunk, at, shrunk, budget, answers, trimmed>>

(* "kind" is the kind minimized for, "other" any other, "none" agreement. *)
Answer == {"kind", "other", "none"}

Found == [i \in 1 .. Length |-> i]

Half(n) == IF n \div 2 = 0 THEN 1 ELSE n \div 2

(* best[:i] + best[i + chunk:] *)
Without(s, i, n) == SubSeq(s, 1, i) \o SubSeq(s, i + n + 1, Len(s))

MinimizeInit ==
  /\ best = Found
  /\ chunk = Half(Length)
  /\ at = 0 /\ shrunk = FALSE
  /\ budget = Budget
  /\ answers = [s \in {Found} |-> "kind"]
  /\ trimmed = FALSE

Asks(s, a) ==
  IF s \in DOMAIN answers THEN a = answers[s] /\ UNCHANGED answers
  ELSE answers' = [x \in DOMAIN answers \union {s} |-> IF x = s THEN a ELSE answers[x]]

InPass  == ~trimmed /\ at < Len(best) /\ budget > 0

(* A slip: any finding will do. *)
TryAnyFinding ==
  /\ InPass
  /\ budget' = budget - 1
  /\ LET candidate == Without(best, at, chunk) IN
     /\ candidate # <<>>
     /\ \E a \in Answer :
          /\ Asks(candidate, a)
          /\ IF a # "none" THEN best' = candidate /\ shrunk' = TRUE /\ UNCHANGED at
                           ELSE at' = at + chunk /\ UNCHANGED <<best, shrunk>>
  /\ UNCHANGED <<chunk, trimmed>>

(* One turn of the inner loop that runs the programs. *)
Try ==
  /\ InPass
  /\ budget' = budget - 1
  /\ LET candidate == Without(best, at, chunk) IN
     /\ candidate # <<>>
     /\ \E a \in Answer :
          /\ Asks(candidate, a)
          /\ IF a = "kind" THEN best' = candidate /\ shrunk' = TRUE /\ UNCHANGED at
                           ELSE at' = at + chunk /\ UNCHANGED <<best, shrunk>>
  /\ UNCHANGED <<chunk, trimmed>>

(* Nothing would be left: the trial is spent all the same. *)
TryNothing ==
  /\ InPass /\ Without(best, at, chunk) = <<>>
  /\ budget' = budget - 1
  /\ at' = at + chunk
  /\ UNCHANGED <<best, chunk, shrunk, answers, trimmed>>

(* A slip: chunks are halved whether or not the pass shrank the input. *)
EndPassHalving ==
  /\ ~trimmed /\ ~InPass
  /\ chunk' = chunk \div 2
  /\ IF chunk' >= 1 /\ budget > 0 THEN at' = 0 /\ shrunk' = FALSE /\ UNCHANGED trimmed
                                  ELSE trimmed' = TRUE /\ UNCHANGED <<at, shrunk>>
  /\ UNCHANGED <<best, budget, answers>>

EndPass ==
  /\ ~trimmed /\ ~InPass
  /\ chunk' = IF shrunk THEN chunk ELSE chunk \div 2
  /\ IF chunk' >= 1 /\ budget > 0 THEN at' = 0 /\ shrunk' = FALSE /\ UNCHANGED trimmed
                                  ELSE trimmed' = TRUE /\ UNCHANGED <<at, shrunk>>
  /\ UNCHANGED <<best, budget, answers>>

MinimizeNext == Try \/ TryNothing \/ EndPass

MinimizeSpec == MinimizeInit /\ [][MinimizeNext]_minimizeVars

-----------------------------------------------------------------------------
(***************************************************************************)
(* What minimize returns shows the kind of finding it was given, and is    *)
(* not empty: the file under fuzz/minimized reproduces the finding.        *)
(***************************************************************************)
ReproducerShowsKind == best # <<>> /\ answers[best] = "kind"

(***************************************************************************)
(* With trials to spare the result is minimal: no single byte can be left  *)
(* out of it and the finding stay.                                         *)
(***************************************************************************)
MinimizedIsMinimal ==
  trimmed /\ budget > 0 /\ Len(best) > 1 =>
    \A i \in 0 .. Len(best) - 1 :
      LET s == Without(best, i, 1) IN s \in DOMAIN answers /\ answers[s] # "kind"
=============================================================================
