---------------------------- MODULE FuzzSession ----------------------------
(***************************************************************************)
(* main of fuzz/fuzz.py: rounds of a batch of cases given to both programs *)
(* in one pack, and case by case where the packs differ.                   *)
(*                                                                         *)
(* The world may make a program slow in any run, so that it is killed at   *)
(* the time limit, and may break a program for good between two rounds (as *)
(* when the system refuses to run a binary).  Minimizing a finding is the  *)
(* module Minimize; here its input keeps its kind, which is what that      *)
(* module shows.                                                           *)
(***************************************************************************)
EXTENDS Comparison, FiniteSetsExt, SequencesExt

CONSTANTS
  Cases,       \* what an input can do: [c, zig : Behaviour, san : Sanitizer]
  Durations,   \* seconds a run may take, in the comparison of the two scripts
  Batch,       \* cases in a round (400)
  Rounds       \* bound: rounds before the deadline

ASSUME FuzzAssumption ==
  /\ Cases \subseteq [c : Behaviour, zig : Behaviour, san : Sanitizer]
  /\ Durations \subseteq Nat /\ Batch \in Nat \ {0} /\ Rounds \in Nat

VARIABLES
  fuzzPc, round,
  broken,      \* the programs that no longer start
  batch,       \* the cases of the round
  packs,       \* [c, zig]: what run_pack returned for each
  suspects,    \* the cases still to be compared one by one
  counts,      \* findings by kind
  fuzzExit,    \* the exit status, or "none"
  passed,      \* ghost: the cases that differ and were not looked at, and why
  met          \* ghost: the kinds of the cases looked at while both programs started

fuzzVars == <<fuzzPc, round, broken, batch, packs, suspects, counts, fuzzExit, passed, met>>

(* The number of findings matters by whether it is zero. *)
Many == 2

(* What an input would be found to be, run alone by programs that work. *)
TrueKind(k) == Differs(Run(k.c, TRUE, TRUE), Run(k.zig, TRUE, TRUE), k.san)

(* run_pack: the sections a program has written when it ends.  At a crash
   what was still in its buffer is lost: anything from nothing to all that
   it wrote for the case it died of. *)
Stops(p) == {i \in 1 .. Len(batch) : batch[i][p].end # "ok"}

Written(p, n) == [i \in 1 .. n |-> batch[i][p].out]

PackResults(p, slow) ==
  LET stop == IF Stops(p) = {} THEN 0 ELSE Min(Stops(p)) IN
  CASE p \in broken -> {[rc |-> "exec_error", out |-> <<p>>]}
    [] p \notin broken /\ (p \in slow \/ (stop # 0 /\ batch[stop][p].end = "hang")) ->
         {[rc |-> "timeout", out |-> <<>>]}
    [] p \notin broken /\ p \notin slow /\ stop = 0 ->
         {[rc |-> "ok", out |-> Written(p, Len(batch))]}
    [] OTHER ->
         {[rc |-> "signal", out |-> Written(p, n)] : n \in 0 .. stop}
           \union {[rc |-> "signal", out |-> Append(Written(p, n), "cut")] : n \in 0 .. stop - 1}

(* split_sections: the error text of a program that does not start holds none. *)
Sections(r) == IF r.rc = "exec_error" THEN <<>> ELSE r.out

FuzzInit ==
  /\ fuzzPc = "sanity" /\ round = 0
  /\ broken = {} /\ batch = <<>>
  /\ packs = [p \in Program |-> [rc |-> "ok", out |-> <<>>]]
  /\ suspects = {}
  /\ counts = [k \in Kind |-> 0]
  /\ fuzzExit = "none"
  /\ passed = {} /\ met = {}

(* sanity_check: both programs start, end in time and agree on a probe. *)
SanityCheck ==
  /\ fuzzPc = "sanity"
  /\ \E b \in SUBSET Program, slow \in SUBSET Program, agree \in BOOLEAN :
       /\ broken' = b
       /\ IF b = {} /\ slow = {} /\ agree
            THEN fuzzPc' = "round" /\ UNCHANGED fuzzExit
            ELSE fuzzPc' = "end" /\ fuzzExit' = "refused"
  /\ UNCHANGED <<round, batch, packs, suspects, counts, passed, met>>

BeginRound ==
  /\ fuzzPc = "round" /\ round < Rounds
  /\ round' = round + 1
  /\ batch' \in [1 .. Batch -> Cases]
  /\ \E b \in SUBSET Program : broken' = broken \union b
  /\ fuzzPc' = "pack"
  /\ UNCHANGED <<packs, suspects, counts, fuzzExit, passed, met>>

RunPacks ==
  /\ fuzzPc = "pack"
  /\ \E slow \in SUBSET Program :
       \E c \in PackResults("c", slow), z \in PackResults("zig", slow) :
         packs' = [p \in Program |-> IF p = "c" THEN c ELSE z]
  /\ fuzzPc' = "compare"
  /\ UNCHANGED <<round, broken, batch, suspects, counts, fuzzExit, passed, met>>

Agreed == packs.c = packs.zig

(* A slip: sections are paired as far as both outputs go. *)
SuspectsPaired ==
  LET c == Sections(packs.c)
      z == Sections(packs.zig) IN
  IF Len(c) > 0 /\ Len(z) > 0
    THEN {i \in 1 .. Min({Len(c), Len(z)}) : c[i] # z[i]}
    ELSE 1 .. Len(batch)

(* The cases compared one by one: those whose sections differ, where both
   programs wrote one for every case, and otherwise all. *)
Suspects ==
  LET c == Sections(packs.c)
      z == Sections(packs.zig) IN
  IF Len(c) = Len(z) /\ Len(z) = Len(batch)
    THEN {i \in 1 .. Len(batch) : c[i] # z[i]}
    ELSE 1 .. Len(batch)

(* As much is left of what each program wrote for the last case. *)
LeftAlike(i) ==
  /\ Len(Sections(packs.c)) = i /\ Len(Sections(packs.zig)) = i
  /\ Sections(packs.c)[i] = Sections(packs.zig)[i]

(* Ghost: the cases that differ and will not be looked at.  A case is
   "alike" where both programs ended alike before the end of the pack, and
   "whole" where one died of the last case with the same left of it. *)
PassedOver(looked) ==
  {[kind |-> TrueKind(batch[i]),
    why  |-> CASE Agreed /\ packs.c.rc # "ok" -> "alike"
               [] ~Agreed /\ i = Len(batch) /\ LeftAlike(i)
                    /\ \E p \in Program : packs[p].rc = "signal" -> "whole"
               [] OTHER -> "overlooked"] :
     i \in {j \in 1 .. Len(batch) : j \notin looked /\ TrueKind(batch[j]) # "none"}}

ComparePacks ==
  /\ fuzzPc = "compare"
  /\ suspects' = IF Agreed THEN {} ELSE Suspects
  /\ passed' = passed \union PassedOver(suspects')
  /\ fuzzPc' = "suspects"
  /\ UNCHANGED <<round, broken, batch, packs, counts, fuzzExit, met>>

CountedIn(counter, kind) ==
  [counter EXCEPT ![kind] = IF @ < Many THEN @ + 1 ELSE @]

(* One turn of the loop over the suspects: a finding is counted, minimized
   and filed. *)
Examine ==
  /\ fuzzPc = "suspects"
  /\ \E i \in suspects, slow \in SUBSET Program :
       /\ \A j \in suspects : i <= j
       /\ LET k    == batch[i]
              c    == Run(k.c, "c" \notin broken, "c" \notin slow)
              z    == Run(k.zig, "zig" \notin broken, "zig" \notin slow)
              kind == Differs(c, z, k.san)
          IN  /\ counts' = IF kind = "none" THEN counts ELSE CountedIn(counts, kind)
              /\ met' = IF broken = {} THEN met \union {TrueKind(k)} ELSE met
       /\ suspects' = suspects \ {i}
  /\ UNCHANGED <<fuzzPc, round, broken, batch, packs, fuzzExit, passed>>

EndRound ==
  /\ fuzzPc = "suspects" /\ suspects = {}
  /\ fuzzPc' = "round" /\ batch' = <<>>
  /\ packs' = [p \in Program |-> [rc |-> "ok", out |-> <<>>]]
  /\ UNCHANGED <<round, broken, suspects, counts, fuzzExit, passed, met>>

(* A slip: a crash of the original is taken for its own affair. *)
FailsButOnCrash == \E k \in Bad \ {"c_crash"} : counts[k] > 0

Fails == \E k \in Bad : counts[k] > 0

(* The deadline has passed: the session is written and the status follows. *)
EndSession ==
  /\ fuzzPc = "round"
  /\ fuzzPc' = "end"
  /\ fuzzExit' = IF Fails THEN "failed" ELSE "clean"
  /\ UNCHANGED <<round, broken, batch, packs, suspects, counts, passed, met>>

FuzzNext ==
  \/ SanityCheck \/ BeginRound \/ RunPacks \/ ComparePacks \/ Examine
  \/ EndRound \/ EndSession

FuzzSpec == FuzzInit /\ [][FuzzNext]_fuzzVars

-----------------------------------------------------------------------------
(***************************************************************************)
(* The pack is a shortcut, and loses only what it must: a case on which    *)
(* the programs differ is passed over only if both died or were stopped    *)
(* alike, or it is the last case, a program died of it, and what each had  *)
(* written of it is the same.  Above all, a round both programs finish     *)
(* hides nothing.                                                          *)
(***************************************************************************)
HiddenOnlyByFailure == \A p \in passed : p.why # "overlooked"

(***************************************************************************)
(* A session that exits 0 has met no input on which the programs differ    *)
(* where the original is defined, but for the cases passed over and those  *)
(* met after a program had stopped starting.                               *)
(***************************************************************************)
CleanSessionIsClean == fuzzExit = "clean" => met \subseteq {"none", "upstream_ub"}

(***************************************************************************)
(* A minimized finding is filed as a fixture, which differential.py judges *)
(* by code that asks the same questions in another order, under a shorter  *)
(* limit.  Run there with programs that take as long as they did, a        *)
(* suspect is put in the same class, but for two things the limits alone   *)
(* explain: a program that takes between 20 and 30 seconds is a timeout to *)
(* differential.py and not to fuzz.py, and a report the sanitizer gives    *)
(* only after 20 seconds comes too late to excuse the original.  Either    *)
(* way a finding that fails the one fails the other.                       *)
(***************************************************************************)
HarnessesAgree ==
  fuzzPc = "suspects" =>
    \A i \in suspects, takes \in [Timed -> Durations] :
      LET fuzz == FuzzKind(batch[i], takes)
          diff == DiffKind(batch[i], takes)
      IN  /\ \/ diff = fuzz
             \/ diff = "timeout" /\ \E p \in Program : BetweenLimits(takes[p])
             \/ /\ fuzz = "upstream_ub" /\ diff \in {"c_crash", "divergence"}
                /\ BetweenLimits(takes["sanitizer"])
          /\ fuzz \in Bad => diff \in Bad
=============================================================================
