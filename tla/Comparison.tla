----------------------------- MODULE Comparison -----------------------------
(***************************************************************************)
(* How the harnesses judge one input: each program is run on it, and the   *)
(* two results are classified.  fuzz/fuzz.py (Differs) and                 *)
(* scripts/differential.py (Compare) each have a classification of their   *)
(* own, and ask a sanitized build of the original whether its behaviour is *)
(* defined there.  Each gives a run a time limit of its own.               *)
(*                                                                         *)
(* What a program does with an input is a record [end, out]: how it ends   *)
(* and which of the transcripts told apart it writes.  What the harness    *)
(* learns of it is [rc, out].                                              *)
(***************************************************************************)
EXTENDS Naturals

CONSTANT Output     \* the transcripts told apart

Program   == {"c", "zig"}
Behaviour == [end : {"ok", "crash", "hang"}, out : Output]
Nothing   == "nothing"

(* TIMEOUT, in seconds, of the one and of the other. *)
FuzzTimeout == 30
DiffTimeout == 20

Result == [rc : {"ok", "signal", "timeout", "exec_error"}, out : Output \union {Nothing}]

(* run and run_single: a program that cannot be started or is killed for
   taking too long has written nothing that is kept. *)
Run(b, starts, intime) ==
  CASE ~starts                                        -> [rc |-> "exec_error", out |-> Nothing]
    [] starts /\ (~intime \/ b.end = "hang")          -> [rc |-> "timeout", out |-> Nothing]
    [] starts /\ intime /\ b.end = "crash"            -> [rc |-> "signal", out |-> b.out]
    [] starts /\ intime /\ b.end = "ok"               -> [rc |-> "ok", out |-> b.out]

(* upstream_is_ub, upstream_sanitizer_report: only a report of a sanitizer
   that exists and ends in time counts. *)
Sanitizer == {"absent", "clean", "report", "timeout"}
UpstreamIsUb(san) == san = "report"

(* The sanitized build is a run like another. *)
Asked(san, intime) == IF san = "absent" \/ intime THEN san ELSE "timeout"

Explained(san, kind) == IF UpstreamIsUb(san) THEN "upstream_ub" ELSE kind

(* A slip: a crash of the original is looked for first. *)
DiffersOriginalFirst(c, z, san) ==
  CASE "exec_error" \in {c.rc, z.rc}  -> "exec_error"
    [] "timeout" \in {c.rc, z.rc} /\ "exec_error" \notin {c.rc, z.rc} -> "timeout"
    [] {c.rc, z.rc} \subseteq {"ok", "signal"} ->
         IF c.rc = "signal"      THEN Explained(san, "c_crash")
         ELSE IF z.rc = "signal" THEN "zig_crash"
         ELSE IF c.out = z.out   THEN "none"
         ELSE Explained(san, "divergence")

(* differs of fuzz.py; "none" is its None. *)
Differs(c, z, san) ==
  CASE "exec_error" \in {c.rc, z.rc}  -> "exec_error"
    [] "timeout" \in {c.rc, z.rc} /\ "exec_error" \notin {c.rc, z.rc} -> "timeout"
    [] {c.rc, z.rc} \subseteq {"ok", "signal"} ->
         IF z.rc = "signal"      THEN "zig_crash"
         ELSE IF c.rc = "signal" THEN Explained(san, "c_crash")
         ELSE IF c.out = z.out   THEN "none"
         ELSE Explained(san, "divergence")

(* compare of differential.py.  A return code that is the word "exec_error"
   cannot be ordered against 0: where it is, compare raises. *)
Compare(c, z, san) ==
  IF "timeout" \in {c.rc, z.rc}  THEN "timeout"
  ELSE IF z.rc = "exec_error"    THEN "raises"
  ELSE IF z.rc = "signal"        THEN "zig_crash"
  ELSE IF c.rc = "exec_error"    THEN "raises"
  ELSE IF c.rc = "signal"        THEN Explained(san, "c_crash")
  ELSE IF c.out = z.out          THEN "none"
  ELSE Explained(san, "divergence")

Kind == {"divergence", "upstream_ub", "zig_crash", "c_crash", "timeout", "exec_error"}

(* The kinds that fail a session and a comparison. *)
Bad == {"divergence", "zig_crash", "c_crash", "timeout"}

-----------------------------------------------------------------------------
(* One input given to either script, where the programs start: k is what
   they do with it, and takes how many seconds each needs. *)
Timed == Program \union {"sanitizer"}

FuzzKind(k, takes) ==
  LET intime(p) == takes[p] < FuzzTimeout IN
  Differs(Run(k.c, TRUE, intime("c")), Run(k.zig, TRUE, intime("zig")),
          Asked(k.san, intime("sanitizer")))

DiffKind(k, takes) ==
  LET intime(p) == takes[p] < DiffTimeout IN
  Compare(Run(k.c, TRUE, intime("c")), Run(k.zig, TRUE, intime("zig")),
          Asked(k.san, intime("sanitizer")))

(* Ended in time for fuzz.py, and too late for differential.py. *)
BetweenLimits(seconds) == DiffTimeout <= seconds /\ seconds < FuzzTimeout

(* Wherever both programs start, the two classifications are one. *)
ClassifyAlike ==
  \A c, z \in Result, san \in Sanitizer :
    "exec_error" \notin {c.rc, z.rc} => Compare(c, z, san) = Differs(c, z, san)
=============================================================================
