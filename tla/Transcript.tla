----------------------------- MODULE Transcript -----------------------------
(***************************************************************************)
(* tools/transcript_zig.zig: transcribe drives the parser over one input   *)
(* in one of its modes and records what every call shows; the scripts'     *)
(* rules and walk (TranscriptRules) read the records as they are made.     *)
(*                                                                         *)
(* A step is a call and its record.  The source the mode names (buffer,    *)
(* stream, user, string) and the allocation budget of "oom" are in the     *)
(* parser's own freedom: what it reads and what it is refused.             *)
(***************************************************************************)
EXTENDS JsonParser

CONSTANTS
  Modes,        \* the modes run: next, nostream, peek, skip, skipuntil, sep, after-end
  MaxRecords    \* records before the transcript is truncated (200000)

ASSUME TranscriptAssumption ==
  /\ Modes \subseteq {"next", "nostream", "peek", "skip", "skipuntil", "sep", "after-end"}
  /\ MaxRecords \in Nat \ {0}

VARIABLES
  mode,     \* [name, target]; the target is skipuntil's
  pc,       \* where transcribe is
  seq,      \* records written
  first,    \* no value yet in this document
  rules,    \* the locals of invariants.py
  walk      \* the locals of state-machine.py

driverVars     == <<mode, pc, seq, first, rules, walk>>
transcriptVars == <<vars, driverVars>>

Rules == INSTANCE TranscriptRules

(* The modes state-machine.py runs. *)
Walked == {"next", "nostream", "after-end"}

Place == {"open", "top", "call", "skipping", "again", "last", "space", "get", "restart", "end"}

TranscriptInit ==
  /\ Init
  /\ \E name \in Modes, t \in Targets \union {"none"} :
       /\ (name = "skipuntil") <=> (t # "none")
       /\ mode = [name |-> name, target |-> t]
  /\ pc = "open" /\ seq = 0 /\ first = TRUE
  /\ rules = Rules!Start /\ walk = Rules!WalkStart

(* The modes with a source of "whole documents only" switch streaming off. *)
Open ==
  /\ pc = "open" /\ pc' = "top"
  /\ IF mode.name = "nostream" THEN SetStreaming ELSE UNCHANGED vars
  /\ UNCHANGED <<mode, seq, first, rules, walk>>

Full(n) == n >= MaxRecords

(* Emitter.record, read by the scripts. *)
Recorded(op, e) ==
  LET r == [op |-> op, event |-> e, depth |-> Depth', ctx |-> Context',
            ctxn |-> IF HasFrame' THEN CurrentFrame'.count ELSE 0,
            err |-> errmsg' # "none"] IN
  /\ seq' = seq + 1
  /\ rules' = Rules!Judge(mode.name, rules, r)
  /\ walk' = IF mode.name \in Walked THEN Rules!Walk(walk, r) ELSE walk
  /\ UNCHANGED mode

(* sourceByte: a record with no event. *)
RecordedByte ==
  /\ seq' = seq + 1
  /\ rules' = [rules EXCEPT !.peeked = Rules!None]
  /\ UNCHANGED <<mode, walk>>

(* Back at the head of the loop. *)
Loop == pc' = IF Full(seq') THEN "end" ELSE "top"

PeekFirst ==
  /\ pc = "top" /\ mode.name = "peek"
  /\ Peek /\ Recorded("peek", event')
  /\ pc' = IF Full(seq') THEN "end" ELSE "call"
  /\ UNCHANGED first

(* What transcribe does with the event t of the record it has just made. *)
Continue(t) ==
  CASE mode.name = "after-end" /\ t \in {"error", "done"} ->
         /\ pc' = IF Full(seq') THEN "end" ELSE "again"
         /\ UNCHANGED first
    [] mode.name # "after-end" /\ t = "error" -> pc' = "end" /\ UNCHANGED first
    [] mode.name # "after-end" /\ t = "done" ->
         /\ pc' = IF ~streaming THEN "end"
                  ELSE IF mode.name = "sep" THEN "space" ELSE "restart"
         /\ UNCHANGED first
    [] OTHER -> Loop /\ first' = FALSE

Calling == pc = (IF mode.name = "peek" THEN "call" ELSE "top")

CallNext ==
  /\ Calling /\ mode.name \notin {"skip", "skipuntil"}
  /\ NextCall /\ Recorded("next", event')
  /\ Continue(event')

CallSkip ==
  /\ Calling /\ mode.name \in {"skip", "skipuntil"}
  /\ BeginSkip
  /\ call'.op = (IF mode.name = "skip" THEN "skip" ELSE "skip_until")
  /\ call'.target = mode.target
  /\ pc' = "skipping"
  /\ UNCHANGED <<mode, seq, first, rules, walk>>

Skip ==
  /\ pc = "skipping"
  /\ SkipStep
  /\ IF call' = Idle THEN Recorded(mode.name, event') /\ Continue(event')
     ELSE UNCHANGED driverVars

(* after-end: two calls more, past the event that ended the transcript. *)
CallPastEnd ==
  /\ pc \in {"again", "last"}
  /\ NextCall /\ Recorded("next", event')
  /\ pc' = IF pc = "again" /\ ~Full(seq') THEN "last" ELSE "end"
  /\ UNCHANGED first

PeekByte ==
  /\ pc = "space"
  /\ SourcePeek
  /\ IF src'.ahead = "space" THEN RecordedByte /\ pc' = "get"
     ELSE pc' = "restart" /\ UNCHANGED <<mode, seq, rules, walk>>
  /\ UNCHANGED first

(* A newline ends the separator; any other space may be followed by more. *)
GetByte ==
  /\ pc = "get"
  /\ SourceGet /\ RecordedByte
  /\ \/ pc' = "restart"
     \/ ~Full(seq') /\ pc' = "space"
  /\ UNCHANGED first

(* A document without a value is the end of the input. *)
Finish ==
  /\ pc = "restart" /\ first
  /\ pc' = "end"
  /\ UNCHANGED <<vars, mode, seq, first, rules, walk>>

Restart ==
  /\ pc = "restart" /\ ~first
  /\ Reset /\ Recorded("reset", "done")
  /\ first' = TRUE
  /\ Loop

TranscriptNext ==
  \/ Open \/ PeekFirst \/ CallNext \/ CallSkip \/ Skip \/ CallPastEnd
  \/ PeekByte \/ GetByte \/ Finish \/ Restart

TranscriptSpec == TranscriptInit /\ [][TranscriptNext]_transcriptVars
(* One thread, which runs: whatever step is enabled is taken. *)
FairTranscriptSpec == TranscriptSpec /\ WF_transcriptVars(TranscriptNext)

-----------------------------------------------------------------------------
TranscriptTypeOK ==
  /\ ParserTypeOK
  /\ pc \in Place /\ seq \in Nat /\ first \in BOOLEAN
  /\ mode.name \in Modes

(***************************************************************************)
(* Whatever the input and the mode, the transcript breaks none of the      *)
(* rules a sweep of invariants.py holds it to.                             *)
(***************************************************************************)
NoViolation ==
  /\ rules.broken = {}
  /\ pc = "end" => Rules!ContainersBalanced(mode.name, rules, Full(seq))

(***************************************************************************)
(* state-machine.py derives the caller's state from the context and its    *)
(* count alone.  That is enough: every event recorded is one it specifies  *)
(* for the state it derives, over restarts and past the end.               *)
(***************************************************************************)
ObservedIsSpecified == walk.unspecified = {}

(***************************************************************************)
(* Every input is transcribed to its end in every mode: no skip, separator *)
(* or restart goes round for ever.                                         *)
(***************************************************************************)
TranscriptEnds == <>(pc = "end")
=============================================================================
