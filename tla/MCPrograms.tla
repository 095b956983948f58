----------------------------- MODULE MCPrograms -----------------------------
(***************************************************************************)
(* The programs around the parser, and its algorithms that keep no state   *)
(* with others, side by side: a behaviour is that of one of them, chosen   *)
(* at the start, and the others stay as they began.  They share nothing,   *)
(* so this is each of their specifications checked by itself.              *)
(***************************************************************************)
EXTENDS MCUtf8, HexFloat, Sources, Minimize, FuzzSession, DifferentialRun,
        MutationTest, MCVerify, TranscriptSweeps, SuiteReports, SafetyInventory,
        PublicCopy

VARIABLE program

programVars == <<program, utf8Vars, hexVars, sourceVars, minimizeVars, fuzzVars,
                 diffVars, mutationVars, pipeVars, sweepVars, reportVars,
                 inventoryVars, copyVars>>

Programs == {"unicode", "hexfloat", "source", "minimize", "fuzz", "differential",
             "mutation", "verify", "sweeps", "reports", "inventory", "copy"}

(* A program that is not the one chosen has a single initial state. *)
Init ==
  /\ program \in Programs
  /\ Utf8Init /\ HexInit /\ SourceInit /\ MinimizeInit /\ FuzzInit /\ DiffInit
  /\ MutationInit /\ PipeInit /\ SweepInit /\ ReportInit /\ InventoryInit /\ CopyInit
  /\ program # "source" => sourceKind = "buffer" /\ inputBytes = <<>>
  /\ program # "verify" => code = text
  /\ program # "sweeps" => ~fetched
  /\ program # "reports" => script = "tests"
  /\ program # "inventory" => inventory = "missing"

Still(p, v) == IF p = program THEN TRUE ELSE UNCHANGED v

OthersStill ==
  /\ Still("unicode", utf8Vars) /\ Still("hexfloat", hexVars) /\ Still("source", sourceVars)
  /\ Still("minimize", minimizeVars) /\ Still("fuzz", fuzzVars)
  /\ Still("differential", diffVars) /\ Still("mutation", mutationVars)
  /\ Still("verify", pipeVars) /\ Still("sweeps", sweepVars) /\ Still("reports", reportVars)
  /\ Still("inventory", inventoryVars) /\ Still("copy", copyVars)
  /\ UNCHANGED program

Next ==
  \/ program = "unicode"      /\ Utf8Next     /\ OthersStill
  \/ program = "hexfloat"     /\ HexNext      /\ OthersStill
  \/ program = "source"       /\ SourcesNext  /\ OthersStill
  \/ program = "minimize"     /\ MinimizeNext /\ OthersStill
  \/ program = "fuzz"         /\ FuzzNext     /\ OthersStill
  \/ program = "differential" /\ DiffNext     /\ OthersStill
  \/ program = "mutation"     /\ MutationNext /\ OthersStill
  \/ program = "verify"       /\ PipeNext     /\ OthersStill
  \/ program = "sweeps"       /\ SweepNext    /\ OthersStill
  \/ program = "reports"      /\ ReportsNext  /\ OthersStill
  \/ program = "inventory"    /\ InventoryNext /\ OthersStill
  \/ program = "copy"         /\ CopyNext     /\ OthersStill

Spec == Init /\ [][Next]_programVars

-----------------------------------------------------------------------------
(* Inputs of a source: any bytes, 0xFF among them. *)
MCInputs == BoundedSeq({"byte", "ff"}, 4)

(* Every exponent the format tells apart, and the cap on either side. *)
MCPowers == (-8 .. 8) \union {-16, -15, 15, 16}

Ends(e, o)    == [end |-> e, out |-> o]
Input(c, z, s) == [c |-> c, zig |-> z, san |-> s]

(* Agreement; a difference, the original's own or not; a crash of either or
   of both; hangs. *)
MCCases ==
  {Input(Ends("ok", "A"), Ends("ok", "A"), "clean"),
   Input(Ends("ok", "A"), Ends("ok", "B"), "clean"),
   Input(Ends("ok", "A"), Ends("ok", "B"), "report"),
   Input(Ends("ok", "A"), Ends("crash", "A"), "clean"),
   Input(Ends("crash", "A"), Ends("ok", "A"), "clean"),
   Input(Ends("crash", "A"), Ends("crash", "A"), "report"),
   Input(Ends("crash", "A"), Ends("crash", "B"), "clean"),
   Input(Ends("ok", "A"), Ends("hang", "A"), "clean"),
   Input(Ends("hang", "A"), Ends("hang", "A"), "clean")}

(* make verify compares the fixed corpus, and here runs it twice. *)
MCLabels == <<"fixed-corpus", "fixed-corpus", "jsontestsuite">>
MCJobsOf == [l \in {"fixed-corpus", "jsontestsuite"} |->
               IF l = "fixed-corpus" THEN 1 .. 3 ELSE {4, 5}]

AtPoint(rc, o, s, z) == [c |-> [rc |-> rc, out |-> o], san |-> s, port |-> z]

(* The original defined, or not and a sanitizer seeing it, or failing to;
   and the port like it, or not. *)
MCPoints ==
  {AtPoint("ok", Reference, "clean", Reference),
   AtPoint("ok", Reference, "clean", Told(<<"string", "done">>, 0)),
   AtPoint("ok", Told(<<"number", "done">>, 1), "report", Reference),
   AtPoint("crash", Told(<<"number">>, 0), "report", Reference),
   AtPoint("timeout", Silence, "timeout", Reference),
   AtPoint("ok", Reference, "absent", Reference),
   AtPoint("ok", Told(<<"number", "done">>, 1), "absent", Reference)}

Sweep(c, m, p) == [corpus |-> c, mode |-> m, program |-> p]
MCRuns == <<Sweep("fixtures", "next", "c"), Sweep("fixtures", "next", "zig"),
            Sweep("fixtures", "oom", "c"), Sweep("fixtures", "oom", "zig"),
            Sweep("fetched", "next", "c"), Sweep("fetched", "next", "zig")>>

(* Lines as zig fmt leaves them: headers, one without its brace yet, one with
   a hatch on either side of it, one with its whole body, a prototype; hatches
   of either kind, one after a string with slashes in it, one in a block;
   comments; literals with braces. *)
MCLines ==
  {AllCode("fn", "cMalloc", <<"open">>), AllCode("fn", "cMalloc", <<>>),
   AllCode("fn", "cMalloc", <<"open", "cast", "close">>),
   AllCode("fn", "helper", <<"cast", "open", "wrap">>), AllCode("test", "t", <<"open">>),
   Line("proto", "malloc", <<"string", "string">>, {<<1, 2>>}, 3),
   Bare(<<"open">>), Bare(<<"close">>), Bare(<<"cast", "cast">>), Bare(<<"cast", "open">>),
   Bare(<<"forbidden">>),
   Line("other", "", <<"//", "cast">>, {}, 1),
   Line("other", "", <<"string", "//", "string", "wrap">>, {<<1, 3>>}, 5),
   Line("other", "", <<"string", "open", "close", "string">>, {<<1, 4>>}, 5),
   Line("other", "", <<"multiline", "string", "open">>, {}, 1),
   Line("other", "", <<"character", "string", "character", "//", "close">>, {<<1, 3>>}, 4)}

(* The prototype has the rule its neighbours lack. *)
MCRuled == {<<"cMalloc", "cast">>, <<"helper", "cast">>, <<"malloc", "wrap">>}

MCDocuments ==
  [d \in {"submission", "readme"} |->
     IF d = "readme" THEN [channel |-> "readme", fenced |-> FALSE]
                     ELSE [channel |-> "devfolio", fenced |-> TRUE]]

(* A claim that may only be disclosed, and one barred without a marker. *)
MCLedger == {[subject |-> "parseFloat", allowed |-> {}, disclosed |-> {"readme"}],
             [subject |-> "modes", allowed |-> {"readme"}, disclosed |-> {}]}
=============================================================================
