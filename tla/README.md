# A verification development for pdjson-zig

pdjson-zig ports the streaming JSON parser pdjson from C to Zig, keeping its
behaviour call by call, byte by byte and allocation by allocation, and comes with
scripts that produce evidence for that. The modules here model both: the port
(`src/src/parser.zig`, `strtod.zig`, the transcript tool) and the programs that
compare, fuzz, sweep, count and report. TLC checks them on small instances and
TLAPS proves nearly all of what it checks of safety for every instance. Paths are
those of the repository, below `src/`.

## 1. The system

| Component | State it keeps | Operations | What makes it correct |
|---|---|---|---|
| Pull parser (`src/src/parser.zig`) | `stack_top`, `ntokens`, `flags`, `next`, `errmsg` of `json_stream` | `nextEvent`, `peekEvent`, `skip`, `skipUntil`, `reset`, `setStreaming`, `sourceGet`, `sourcePeek`, `open*`, `setAllocator`, `close` | the events are those of the JSON grammar; an error latches and has a diagnostic; `skip` leaves the caller beside what it skipped; every call returns |
| Container stack (same file) | `stack`, `stack_top`, `stack_size` | `push`, `pop`, `currentFrame`, the counts | no frame is read before it is written, the block behaves as a sequence, the nesting limit limits |
| Token buffer (same file) | `data.string`, `string_fill`, `string_size` | `initString`, `pushchar`, `getStringSlice`, `getNumber` | every byte below the fill mark was written, a complete token is terminated |
| String lexer (same file) | locals of `readString` and what it calls | one call per string | each character becomes the UTF-8 of what it denotes; nothing legal is refused |
| Number lexer (same file) | locals of `readNumber` | one call per number | the longest number of RFC 8259, copied whole |
| Unicode helpers (same file) | none | `encodeUtf8`, `hexchar`, `utf8SeqLength`, `isLegalUtf8` | agree with RFC 3629 |
| Source adapters (same file) | `source.position`, the caller's stream | `get`, `peek` for buffers, `FILE *` and callbacks | what a peek shows the next get returns; the position counts what was consumed |
| Number conversion (`src/src/strtod.zig`, `scripts/hexfloat_oracle.py`) | none | `parseHexFloat`, `roundToF64`, and the Python reference of both | correct rounding, in both |
| Diagnostics (`src/src/errmsg.zig`) | a 128-byte buffer | `Builder` | never overruns it, always terminates it |
| Zig and C API (`api.zig`, `c_api.zig`) | none of their own | wrappers, error classification | each call is the parser's |
| Transcript tool (`tools/transcript_zig.zig`) | where `transcribe` is, the records written | drives the parser in one of its modes | every input is transcribed to an end |
| Transcript checkers (`scripts/state-machine.py`, `scripts/invariants.py`) | the state the records imply; transitions seen, rules broken | walk a transcript, sweep all corpora | the table and the rules are what a caller relies on; a clean exit is owed to the fixtures |
| Comparison harness (`scripts/differential.py`) | jobs, findings, files on disk | compare the two programs on every input and mode, in threads | the files are the findings of the run, whatever was interrupted |
| Fuzzer (`fuzz/fuzz.py`) | rounds, counts, the input being minimized | packs, suspects, `minimize` | no difference is counted as agreement; a reproducer reproduces |
| Mutation testing (`scripts/mutation-test.py`) | the oracle, verdicts | build and run each mutant | a mutant is caught by its defect |
| Evidence pipeline (`Makefile`, `scripts/report.py`, `validate-claims.py`, `audit-claims.py`) | artifacts, fuzz sessions, claims, README block | `make verify` and its targets | OK means that what it measures of the present code is what is claimed |
| Suite reports (`scripts/original-tests.py`, `conformance_report.py`, `hexfloat_oracle.py`) | counts | run the programs, sum up, exit | what was judged and passed, the port did right |
| Escape-hatch inventory (`scripts/safety-inventory.py`) | scan state, inventory on disk | scan, self-test, `--check` | every hatch is filed under the function it is in |
| Public-copy audit (`scripts/audit-public-copy.py`) | the numbers of all artifacts, problems | audit each document | a figure is backed, a barred claim is not told |

How they interact: the caller calls the parser; the parser pulls bytes from the
source one at a time, through two function pointers, and calls a lexer for each
token. The lexers write the one token buffer, the parser the one stack; both ask
the caller's allocator, which may refuse any request. All of them record a
diagnostic in the same latch (`beginError`), which only `reset` clears. The
transcript tool is a caller, and so is its counterpart in C; the scripts run the
two as processes, which may crash, hang or stop starting, compare or judge what
they printed, and leave files. `report.py` gathers the files, and the claims of
`CLAIMS.json` are checked against them.

What is hard in the parser, and hard to test: a push that fails halfway leaves the
index on a frame that does not exist; a peek fills the only token buffer before the
event is delivered; a reset keeps the event peek buffered; the current frame is
held by pointer across a `realloc`; sizes and indices wrap; DONE means different
things in the two modes; the boundaries of UTF-8, surrogates, numbers and rounding.
What is hard in the scripts: a program that dies or hangs makes results equal that
are not; threads complete in any order; files outlive the run and the code that made
them; two pieces of code classify the same result; a check may pass because what it
would have looked at was not there. The list, each at its line, is `hazards` in
`PROJECT.json`.

## 2. The modules

```
 AbstractStack            EventGrammar --> EventTable <-- TranscriptRules
      ^ implements             ^ implements                    ^ reads the records
 ContainerStack <--EXTENDS-- JsonParser <-----EXTENDS----- Transcript
                               |
                               +--EXTENDS--> TokenContract <--EXTENDS-- TokenReader
                                                                        ^ implements
 TokenText <--implements-- TokenBuffer <--EXTENDS-- StringLexer, NumberLexer
                                                        |
                                                        +--> Utf8 <-- MCUtf8
 Sources     HexFloat     Minimize     FuzzSession --> Comparison
 DifferentialRun    MutationTest    TranscriptSweeps    VerifyPipeline <-- MCVerify
 SuiteReports       SafetyInventory    PublicCopy
                    MCPrograms runs all of these, and MCUtf8, one at a time
```

The parser.

* **ContainerStack** keeps the block of frames as memory: a function over the
  indices, with `Unwritten` in a slot `realloc` has handed out and `push` has not
  filled, and what an older container left in a slot above the top. The index
  wraps at `SizeMax`, which is `SIZE_MAX`. `Push` and `Pop` are the two functions;
  the actions `PushStep`, `PopStep`, `CountStep`, `FailStep` and `ResetStep` are
  how the parser uses them. A count may be advanced in the same step as a push or
  a failure, because `nextEvent` advances it before it calls `readValue`.
* **AbstractStack** is what that promises: a sequence of `[type, count]`.
* **JsonParser** is `nextEvent` and the calls built on it. A step is a call,
  except that `skip` and `skipUntil` take a step for each event. `AfterValue`,
  `FirstValue`, `NoFrame`, `InArray`, `InObject` and `OtherFrame` are the branches of
  `nextEvent`, in its order, both ends in an "invalid parser state" among them; `ReadValue` is `readValue`. The input is chosen byte
  by byte as the parser reads it, in the classes `nextEvent` and `readValue` tell
  apart; `src.ahead` remembers a byte that was peeked. Whitespace costs nothing
  and is only visible to `sourceGet` and `sourcePeek`. A diagnostic is a kind
  (`"oom"`, `"depth"`, `"syntax"`, `"state"`), not its text. A count is advanced
  up to `MaxCount`.
* **EventTable** is the table `SPEC` of `scripts/state-machine.py`;
  **EventGrammar** is that table as a pushdown machine.
* **TokenContract** is what reading a token may come to. **JsonParser** uses it in
  place of a lexer; **TokenReader** is it as a specification, which both lexers
  are shown to implement.
* **TokenBuffer** is `initString` and `pushchar` on the bytes of the block, with
  `BufferMax` for `SIZE_MAX`; **TokenText** is what that promises, a text that
  starts empty at each token, grows at its end and is completed by its terminator.
* **StringLexer** and **NumberLexer** read one token, a byte a step, into the token
  buffer an earlier token may have used or failed to allocate. Strings are made of
  real bytes, numbers of the classes `readNumber` distinguishes (`e` and `E` are one
  class, and so are the digits 1 to 9).
* **Utf8** has the arithmetic of the Unicode helpers, and beside it the tables of
  RFC 3629 and RFC 8259 they are compared with, which are written from the RFCs.
  **MCUtf8** walks it over its whole domain.
* **Sources** is the three kinds of source under any gets and peeks, with byteAsC's
  0xFF, the position and, for a stream, another reader.
* **HexFloat** is `parseHexFloat` and `roundToF64` digit by digit beside the exact
  value they lose digits of, with `round_to_binary64` of the Python reference, both
  against "the nearest float, ties to even" over the set of all floats, with infinity
  as the power of two after the largest. The sizes of a digit, of the accumulator, of
  the significand, of the exponent and of the `i32` it is added up in are parameters,
  and so is the cap at which the exponent written is held (`Clamped`).
* **Transcript** is `transcribe`: each of its calls is a step of JsonParser and a
  record, and **TranscriptRules** (the rules of `invariants.py`, the walk of
  `state-machine.py`) reads the records as they are made, carrying the locals of
  each rule's loop from one to the next.

The programs around it. In each, a step is one the outside world may come between:
a process started or ended, a file written, a turn of the main loop.

* **Comparison** is what both harnesses make of one pair of results: `Differs` is
  `fuzz.py`'s, `Compare` is `differential.py`'s. An input is what the programs do on it
  (`Behaviour`) and what the sanitizers say. The two scripts run them under limits of
  their own (`FuzzTimeout`, `DiffTimeout`).
* **FuzzSession** is `fuzz.py`'s main loop: a round of a batch, the two packs, the
  suspects, the findings. A program may be slow in any run and may stop starting
  between two rounds. **Minimize** is `minimize`, with `differs` answering as it
  likes but always alike for the same input.
* **DifferentialRun** is `differential.py`'s main: jobs in a pool of threads,
  findings in order of completion, sorted, unlinked and rewritten file by file; one
  directory for all labels; a run may be killed anywhere.
* **MutationTest**, **TranscriptSweeps** and **VerifyPipeline** are the mutation
  test, the two sweeps over corpora (present or not), and `make verify` with the
  targets, edits and interruptions between which it runs.
* **SuiteReports** has the three scripts that run a suite and report;
  **SafetyInventory** the scan line by line beside what the compiler sees of the
  same lines, whose literals and comments are part of a line. A prototype is a header
  to the scan, and to the compiler has no body; **PublicCopy** the audit
  between edits and measurements.

Operators introduced with "A slip" are not part of a model: each is a definition
as a plausible mistake would have it, and TLC finds a property violated when it
takes the definition's place (`mutants` in `PROJECT.json`).

## 3. What the runs check

Sizes are small and keep the ratios that matter: blocks grow by 2 instead of 4,
the token buffer starts with 2 bytes instead of 1024, `SIZE_MAX` is 15 for the
stack and 17 or 9 for the buffer.

| Run | What it checks | Bounds, and why they are enough |
|---|---|---|
| `stack` | `OpenFramesWritten`: every container `json_get_depth` counts has a frame, and the index leaves the written frames only under a latched error and by one slot; `NestingWithinLimitPlusOne`; implements AbstractStack | two growths, a refusal at each, a limit of 3, which refuses the fifth container, counts to 2 |
| `stack_limit_as_printed` | violation: `-Dstack-max=2` lets three containers open | |
| `stack_stale_frame` | violation: with room in the block beyond the limit, `currentFrame` returns a frame no push has written | `StackInc = 4` as in the code, limit 1 |
| `token_buffer` | `FilledBytesWritten`, `CompleteTokenTerminated`, implements TokenText | two doublings, the third does not fit |
| `token_buffer_nul` | violation: when the lexer returns from a token cut short, the buffer it leaves has no NUL (`BufferCarriesNul`, asked only where the caller has control again) | |
| `parser_calls` | all eight calls in any order: `NeverInvalidState` (neither of the two branches is taken), `TokenBelongsToEvent`, `SkipStaysBeside`, `DoneMeansExhausted`, `SkipAdvances`; implements EventGrammar and ContainerStack | 5 bytes or token tails: a container in a container, a member, a second growth refused, a depth limit of 2; the caller resets only with nothing buffered and switches mode only between documents (`Careful`) |
| `parser_peek_reset` | violation: an ERROR peeked before a reset is returned without a diagnostic | |
| `transcripts` | `NoViolation`: no transcript of any mode breaks a rule of `invariants.py`; `ObservedIsSpecified`: the state that `state-machine.py` derives from context and count allows every event recorded; `TranscriptEnds` | 6 units: a second member's name, containers three deep, two or three documents; 14 records, so that the truncation at `MaxRecords` happens; every mode, any request of the allocator refused in any of them, as the modes with an allocation budget do |
| `string` | `CharacterIsDenoted`, `RejectsOnlyNonText`, `StringIsWellFormed`; uses the buffer as TokenBuffer says; implements TokenReader | the first character is any sequence of 20 bytes, the boundaries of every table; then one more |
| `number` | `NumberIsLongest`, `RejectsOnlyNonNumbers`; implements TokenReader | 8 bytes: sign, integer of two digits, fraction, signed exponent, and a byte more |
| `programs` | the properties of section 3.1, one program at a time | section 3.1 |
| `verify_stale` | violation: `make verify` ends with OK over an artifact that was measured before the code changed | two measurements of the pipeline, one of a target of its own, 3 edits or targets |

The five violations are statements of the repository that its code does not keep;
`findings` quotes them. Two of them matter to a caller: under `-Dstack-max` a
depth error may make `json_get_context` read an uninitialised frame, and the C
string of a token cut short need not be terminated inside the bytes that were
written. The fifth is about the evidence: artifacts such as the mutation report and
the long fuzz session are cited by claims and produced by no step of `make verify`.

Two things met on the way have no run of their own. Claim C-26 rests on a count of
disagreements that is 0 also where there was no probe of the port to ask
(`hexfloat_oracle.py` then exits 0). And the inventory names `root.zig:43`, a line at
the file's own level that opens a block, after the prototype on line 41; no hatch is
on it, so no rule is misapplied.

### 3.1 The run `programs`

`MCPrograms` chooses one of twelve specifications at the start; the others stay as
they began. They share no variable, so this is each of them checked by itself, in
one state graph.

| Property | Of | What it says | Bounds |
|---|---|---|---|
| `EscapesNameUnicode` | Utf8 | `encodeUtf8` writes every scalar value and no other; surrogate pairs are UTF-16 | every code point and some above the last, every pair |
| `LegalIsWellFormed` | Utf8 | `isLegalUtf8` accepts the sequences of RFC 3629 | every two bytes, followed by the boundary bytes |
| `HexFloatsRoundToNearest` | HexFloat | one rounding, to nearest, whatever digits were dropped, in the port and in its reference; every 32-bit sum and product of the exponent is in range (`ExponentFits`), and the shift and the rounded significand fit where `roundToF64` narrows them (`RoundingFits`) | digits of 2 bits, an accumulator of 6, a mantissa of 3, exponents to 3, 5 digits, powers from -8 to 8 and at the cap on the exponent and one beyond it, 15 and 16 of either sign, with -26 to 25 for an `i32`, the least that holds the cap and the places of 5 digits: digits dropped at a tie, subnormals, the largest float and infinity |
| `SourceIsSteady` | Sources | the end stays the end; a get gives what the peek showed; the position counts gets | inputs up to 4 bytes, 0xFF anywhere, `char` signed |
| `HarnessesAgree` | FuzzSession | every suspect is classified alike by both harnesses, but for what the limits explain (a program between 20 and 30 seconds, a sanitizer that reports between them), and what fails one fails the other | 8 kinds of input, batches of 2, 2 rounds; each of the three programs takes 19, 20 or 30 seconds: within both limits, within the longer, beyond both |
| `HiddenOnlyByFailure` | FuzzSession | comparing packs passes over a difference only where both programs died or stopped alike, or one died of the last case and the same is left of what both wrote | the same |
| `CleanSessionIsClean` | FuzzSession | exit 0 means that no suspect differed, but where the original is undefined or a program had stopped starting | the same |
| `ReproducerShowsKind` | Minimize | what is returned still shows the finding | 5 bytes, 12 trials: the budget ends in the middle of a pass, or is left over |
| `MinimizedIsMinimal` | Minimize | with budget to spare no byte can be left out | the same |
| `EvidenceAgrees` | DifferentialRun | summary and case files are the findings of the run that ended, each once, in order | a label of 3 jobs run twice and one of 2, 2 threads, a kill or an exception anywhere |
| `CaughtByTheDefect` | MutationTest | no mutant is caught where the sanitizer has reported the original; one that did what the port does, only where the port differs | 3 fixtures of 7 behaviours, 2 defects, the full detector |
| `SweepsAreHonest` | TranscriptSweeps | coverage that passes is owed to the fixtures, and both programs move as specified; a clean sweep has met no broken rule | two corpora, one fetched or not, two modes, two transitions and a stray |
| `VerifiedMeansClaimed` | VerifyPipeline | OK means that nothing the pipeline measures of the present code is bad, and all but the fuzzer's figure is what is claimed | as `verify_stale` |
| `ReportsAreHonest` | SuiteReports | what an exit of 0 says, over programs that die halfway: each test the original told of is one the port told of and passed, and with the ledger's count all are; no document has an answer from one program and another, or none, from the other; the port that was asked gives the reference's bits | 2 assertions, 3 documents or literals |
| `InventoryIsComplete` | SafetyInventory | no hatch the compiler sees is lost; none in a body is covered by a rule for another function or another operation, whatever literals hold and whatever prototypes stand between, nor one at the file's own level where the braces in literals balance | files of 5 lines out of 16: a test, a prototype, functions with a rule for one operation and not the other, each header form, comments, literals with braces, quotes and `//` in them |
| `CopyIsBacked` | PublicCopy | a figure in the copy is measured, reasoned, a name, or counted by the audit itself before; nothing with a marker is told where it may not be | two documents with a passage each, three edits |

About 2.4 million distinct states. What the properties leave out is what the code
does: a finding of the kind `exec_error` does not fail a fuzz session; two programs
that crash alike look alike; the sweep does not see a program die; a suite that was not
fetched is skipped; behaviour no sanitizer reports counts as defined; the audit's own
counts back figures. The hazards say so at each line.

Type invariants, and invariants another property implies, are not in the runs: they
are proved (`StackTypeCorrect`, `BufferTypeCorrect`, `ParserTypeCorrect`,
`ContextFollowsDepth`, `ErrorsLatch`, `ErrorsHaveMessages`,
`ContextReadsWrittenFrames`, `NumberDrivesBuffer`), or are a part of `NoViolation`,
which states the printed form of three of them. `SkipAdvances` takes the place of a
liveness property of single skips: it is the reason they return, can be proved, and
`TranscriptEnds` is the liveness that follows from it for a whole program. Longer
documents, which once had a run of EventGrammar of their own, are those of
`transcripts`, where the script's own walk judges them.

Fairness. `FairTranscriptSpec` has weak fairness on `TranscriptNext`, and the lexers
on their next step: one thread that does nothing else. Nothing makes a caller of the
parser call, no liveness is claimed of the scripts, which run under deadlines or
until they are interrupted. The sources are finite in the model; on a source that
never ends skipping need not end either, and the property makes no such claim.

Deadlock is checked where the system has no end of its own. A lexer that has returned
stutters (`Returned`); a transcript, and most of the programs of `programs`, end.

## 4. What is proved

TLAPS proves, for all values of the constants that satisfy the assumptions the
modules name, all of the invariants of the passing runs, and all of their action
properties and refinements but for what is liveness in them. `theorems` in
`PROJECT.json` lists the results, and which property each states. Five of them, of
the parser and of the transcripts, are proved under `Careful = TRUE` besides: the
caller resets with nothing buffered, and changes the mode only between documents.
The run `parser_calls` and the transcript tool are careful. Of a caller that is not,
`ErrorHasMessage` is false (the run `parser_peek_reset`), and TLC finds
`DoneMeansExhausted` and `RefinesEventGrammar` violated as well.

**The stack, `ContainerStack_proofs`.** The invariant `StackInv` is the type invariant
and `OpenFramesWritten` with what they need of each other: where the index is
relative to the block, that frames below the top are written, and that an index off
the frames is there by exactly one slot and under an error. Neither part is inductive
alone: `PopStep` keeps frames written only because it is enabled on a frame that
exists, and `PushStep` lands on the next slot only because the index was inside
before. From it follow `StackTypeCorrect`, `OpenFramesAlwaysWritten`,
`LimitIsOffByOne`, `ContextReadsWrittenFrames` (without a limit, the default build:
with one it is false, see the run `stack_stale_frame`) and `StackRefinement`: each
action is a step of AbstractStack, the grown block holding the old frames at their old
indices.

**The parser, `JsonParser_proofs`.** `DrivesStack` shows that every step is a step of
`StackSpec` or leaves the stack alone, so the stack's invariant holds inside the parser
without being proved again (`ParserStackInvariant`). On it rest, each with the part of
the state it needs:

* `InvalidStateUnreachable` (there is a frame, and `push` writes none but of arrays and
  objects), `ContextFollowsDepth`, `ErrorsLatch`, `ParserTypeCorrect`,
  and `ErrorsHaveMessages` (careful);
* `SkipsAdvance`: each branch of `nextEvent` that yields an event other than DONE and
  ERROR has taken a byte, and those two leave the loops;
* `TokensBelongToEvents`: the token is that of the event returned *and* that of the
  event buffered (`TokenInv`); only a peek reads ahead, and only when nothing is
  buffered;
* `DoneIsTheEnd` (careful): after DONE nothing is open, and the end has been seen unless
  streaming mode stopped at the end of a value (`DoneInv`);
* `SkipsStayBeside`, for every caller: while a skip runs, its two counts are the numbers
  of arrays and of objects among the frames above the depth it began at (`Tallied`,
  inside `SkipInv`), so both are zero exactly back at that depth. `skip` counts types
  without looking how they nest; this is why it may. Where a reset has emptied the
  stack under a buffered container, the skip begins below zero and owes an end
  (`Owed`) that never comes: it goes on to DONE or an ERROR;
* `FollowsGrammar` (careful): each event is a step of EventGrammar, with its pushdown
  read off the frames and the phase of a container off its count.

**Transcripts, `Transcript_proofs`.** `TranscriptDrivesParser` carries the parser's
invariants over. `TranscriptsAreSpecified` rests on `WalkInv`: what the walk derives from
the context and count of the last record is the state of the grammar, by `FollowsGrammar`
an event of its table comes next. `TranscriptsBreakNoRule` rests on `RuleInv`: the
running count of openings less closings of each type is that of the frames, the
depth a rule remembers is the present one, and a peeked event is the one buffered.
Both are for a careful caller, which the tool is.

**Tokens, `TokenBuffer_proofs`.** `BufferTypeCorrect`, `FilledBytesAreWritten` and
`CompleteTokensEnd`, from an invariant that also says that a block has a size and that
a token is only lexed into a block; and `BufferRefinement`, by what one `pushchar` does
to the text, growth or no growth.

**The lexers, `StringLexer_proofs` and `NumberLexer_proofs`.** `StringDrivesBuffer` and
`NumberDrivesBuffer` show that every step is a step of TokenBuffer or leaves it alone, so
the buffer's invariant holds while a token is read, from each of the buffers an earlier
token may have left (`StringBytesAreWritten`, `NumberBytesAreWritten`). `CallInv` ties the
place in the call to the error flag. Then, for texts of any length:

* `NumbersAreLongest`, `RefusesNoNumber`: `PlaceInv` says which state of the automaton of
  RFC 8259 each place of `readNumber` stands for, and that a byte seen and not taken
  has not moved it. The automaton's run over the bytes is a recursive function, which is
  unfolded by one byte at each step (`ReachedIsAfter` and the lemmas before it);
* `LegalSequencesAreWellFormed`: `isLegalUtf8` case by case against the table of
  RFC 3629; `EscapesNameAllUnicode`: `encodeUtf8` over the four ranges, and the surrogate
  arithmetic as a bijection. They are statements about MCUtf8's walk, whose domain is
  all of Unicode, and hold for any bound on it;
* `CharactersAreDenoted`, `RefusesNoText`: `UnitInv` says what the bytes consumed have come
  to at each place (a lead and its legal beginnings, an escape, half a pair with `cp` the
  value of its hex digits so far); a byte that fits none of them starts no character,
  because the beginnings of characters are exactly these;
* `StringsAreWellFormed`: `WrittenInv` says that the text before `mark` divides into
  characters and that the bytes after it, with those waiting in `buffer`, are the UTF-8 of
  what was consumed;
* `StringReadsOneToken`, `NumberReadsOneToken`: every step is a step of TokenReader, the
  contract JsonParser has in place of the lexers. That the call also returns is the
  other half of `RefinesTokenReader`.

**The programs, `Programs_proofs`.** `SourcesAreSteady`, from the invariant that the
position is the number of bytes given, and that what the last peek gave, or the end
once given, is what the next byte is. `ClassifiersAgree` by cases over the two
classifications, from which `SuspectsJudgedAlike` follows because suspects are cases of
the batch (`RoundOK`) and, within the shorter limit, give both scripts the same results
(`TimedAlike`); `CleanSessionsAreClean`, whose invariant `CountsOK` says that what
has been met has been counted. `PacksHideLittle` rests on what a pack leaves (`PackOK`): the
sections of one that ended well are its cases' own transcripts, and so are all but the
last of one that died with a section for each; so where sections agree the cases do.
`ReproducersShowTheKind`: `best` is always an input that was answered, with the kind
asked for. `MinimizedInputsAreMinimal`: in a pass of single bytes that has shortened
nothing, each byte before the place reached has been left out in vain (`PassInv`).
`DifferentialEvidenceAgrees`: each job waits, runs, is complete or has been taken,
never two of these (`JobsApart`), so the findings are of different jobs and sorting
them puts them strictly in order; the case files then follow the list (`FilesFollow`).

**Hexadecimal floats, in `Programs_proofs`.** `HexFloatsAreRight`, for every size of the
format and every literal of at most `MaxDigits` digits, a number `HexAssumption` bounds by
the room in an `i32`: 2^28 - 269 with the sizes of the code. The chain has four links:

* what the digits leave (`HexInv`): the accumulator holds the number above the digits
  dropped, `sticky` is whether those are all zero, and once one is dropped the
  accumulator is full, so that more bits than a significand's are still in it. Only the
  last makes it inductive, and the rounding right: a digit is never dropped from a
  number that has yet to be shifted left;
* the port against the reference (`PortIs`): where bits are cut off, cutting the
  accumulator with `sticky` decides as cutting the whole number does (`CutAway`);
  where none are, no digit was dropped;
* the reference against the definition (`FloatOfIsNearest`): the value lies between two
  multiples of the unit in the last place (`IsRounding`), between which no float lies
  (`Gap`), so the nearer of them, or the even one, is the nearest of all (`Between`); the
  upper one is a float also where the significand carries over, infinity at the end;
* the reference's bit pattern (`OracleIs`): it stands for that float, whether
  subnormal, normal, carried over into the next binade or infinite.

That the narrowed integers fit (`RoundingAlwaysFits`) rests on the first link and on where the leading bit is: a shift to the right
by more places than the accumulator has bits would be of a value that underflows, and the
units, which have a significand's bits, can only reach the next power of two (`UnitsFit`).
That the exponent does (`ExponentAlwaysFits`) rests on the number of digits counted
(`PlacesFit`); that holding it at the cap changes no float (`ClampedAlike`), on the digits
being too few to bring an exponent of 2^30 back into the format (`LeadingBit`).

`PowersDouble` and what follows it give powers of two as a recursive function; `Pow2` is
one for that reason.

**The evidence, `Evidence_proofs`.** `VerifyIsHonest` needs that while the pipeline runs the
steps already taken are good and their artifacts current (`Fine`); `MutantsAreCaughtFairly`
that what the oracle expects is what the original did on a comparable point, and
that what caught a mutant differed from it; `SweepsArePassedHonestly` that the
fixtures' transitions are among the port's and that whatever broke a rule is among the
results; `ReportsAreOwedToThePort` that what each script has noted of a case so far is
what the programs did (`NotedTruly`); `AuditedCopyIsBacked` that nothing is edited or
measured while an audit runs, so that the faults found are those still there at its end.
`VerifyIsHonest` is not about the evidence other targets write, nor the fuzzer's figure,
`MutantsAreCaughtFairly` not about undefined behaviour that no sanitizer reports, and
`ReportsAreOwedToThePort` does not say that there was anything to judge.

`CleanInventoriesAreComplete` is about files of any length, whose lines hold any
literals and comments that compile, prototypes between the functions included. No
function is declared within another there, as none is in `src/src/`. Two functions run over a line, the scan's
(`strip_comments`) and the compiler's; that no code is stripped away (`CodeIsKept`)
comes of the scan being in a literal just where the compiler is (`ScanTracksLiterals`).
The invariant (`InventoryInv`) relates the scan's place to the blocks that are open:
where a body is open, the scan is in that function or at the file's own level, never in
another function, and no header waits for a brace any more, a prototype's neither,
because the function's own has overwritten it; where the literals so far balance its depth is the compiler's level.
A brace in a literal may thus make it lose a function, which leaves a hatch
unclassified and the inventory not clean, but not make it take one for another.

What the proofs changed in the models. `HiddenOnlyByFailure` used to say of a last
case passed over that its transcript was *whole*; the proof failed there, and TLC,
given the input the proof asked for, found that statement violated. What the code
guarantees is that as much is left of what both have written (`LeftAlike`). Cases of
`Continue` and of the rules' `Opened` overlapped, which TLC resolves by their order and
a proof cannot: their guards now exclude each other. The run of RFC 8259's automaton
became a recursive function in place of a fold, and so did the powers of two of
HexFloat and the two passes of SafetyInventory over a line; the sort of the findings is
stated as what a sort is. `InventoryIsComplete` used to promise the right function
only where the braces in literals balance: the proof showed that for hatches in bodies
it does not need them to, and that for those outside them balance alone is not enough (a
line that leaves a block open, or one of a method's, is not at the file's own level).

**Only model-checked.**

* Liveness: `TranscriptEnds`, and the return of the lexers in `RefinesTokenReader`.
* That each of the five documented claims fails (the runs that expect a violation).

Induction over the length of a text, the places of a line or the exponent of a power is
done where it is needed by minimal counterexamples (`Least`, and `Counting` in terms of
sets: a set that holds 0 and the successor of each of its members is all of Nat), since
the induction theorems that take a predicate cannot be instantiated. That a recursive
function has the values its definition says is shown from runs that exist for each
length and agree (`RunOf`). No module declares a RECURSIVE operator; folds and recursive
functions are used instead.

## 5. What is not modelled

* Of the parser: line numbers and the text of diagnostics; `setAllocator`, `close`;
  `ntokens` beyond zero or not; the bytes of a literal (`isMatch` is one outcome).
  Sources are modelled by themselves, and in the parser as a choice of what is read.
* `errmsg.zig`, and the classification of messages in `api.zig`: wording. `api.zig` and
  `c_api.zig` otherwise wrap the parser without state.
* The decimal path of `strtod.zig`, which is the standard library's, and the syntax of
  numbers by name.
* Of `invariants.py`, the rules about sequence numbers, token bytes, lines and
  positions; the parsing of printed records; the self-tests of the scripts but that of
  `safety-inventory.py`.
* The generator and corpora of the fuzzer, its raw logs, the mutants' patches, the
  wording of every report and the kinds of check a claim may have.
* `bench.py`, `size-report.py`, `api-coverage.py`, `number-torture-report.py`,
  `optimization-history.py`, `gen-fixtures.py` and the shell gates: straight-line
  measurements that write one file. What becomes of the file is VerifyPipeline.
* The upstream C parser is vendored and serves as the port's reference, not as a part
  of it.

## 6. What could follow

The position and line counters of Sources composed with the parser; the remaining rules
of `invariants.py`, which need them; literals of more digits than `HexAssumption` allows,
of which nothing is claimed.
