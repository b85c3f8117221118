# touchstone-rs in TLA+

`touchstone-rs` reads Touchstone files: text files in which a measurement or
simulation tool writes the scattering parameters of an N-port network, one
frequency point after the other, sometimes followed by noise parameters.  A
Rust core (`crates/touchstone-core`) parses them into a `Network`; a Python
extension (`crates/touchstone-py`) hands its arrays to NumPy.

The program is sequential.  There are no threads, callbacks, retries or files
written.  What makes it hard is that a reader is a state machine over a stream
whose structure is mostly *implied*: a 1.x file never says how many ports it
has, where a data set starts or where the noise section begins, and a 2.x file
says all of it in thirteen keywords that may come in many orders, repeat,
contradict each other or lie.  The failure the authors fear (ADR 0004) is not a
crash but a file read into a plausible, wrong network.  These modules state and
check what keeps that from happening.

## The system

| component | source | state | operations | modelled |
|---|---|---|---|---|
| 1.x reader | `parser/v1.rs` | `DataSets`: port count, half-read set and its line, points, noise | `push_line`, `flush`, `flush_noise`, `finish`, `parse_v1` | `V1Reader` |
| 2.x header | `parser/v2.rs` | `Header`: options, counts, reference, format, order, comments, seen | `read`, `claim`, `apply`, `finish`, `read_reference`, `skip_information_block` | `V2Header`, `V2Reader` |
| 2.x data and noise | `parser/v2.rs` | section, `NetworkData`, `NoisePoints` | `push_line`, `flush`, `check_complete`, the section loop, `entry_order` | `V2Reader` |
| shared arithmetic | `parser/mod.rs`, `v1.rs`, `v2.rs` | none | `values_per_point`, `nports_from_data_set`, sizes of triangles | `DataShape` |
| the caller's view | `lib.rs`, `model.rs` | the `Network` | one call, one answer | `SweepReader` |
| lines | `lines.rs` | none | `logical_lines`, CR-only test, EOF marker | `LogicalLines` |
| option line | `option_line.rs`, `parser/mod.rs` | seen flags, options, the R list | `parse_option_line`, `claim`, `check_ohms`, `check_option_scope` | `OptionLine` |
| keyword line | `parser/keyword.rs` | none | `parse_keyword_line` | `KeywordLine` |
| dispatch | `parser/mod.rs`, `lib.rs` | how far the call has come | `parse`, `sniff_version`, `parse_file_with`, `nports_from_extension` | `ReadFile` |
| Python layer | `touchstone-py` | the object's arrays | `read`, `from_core`, `Network.__new__`, `z0_values` | `PyNetwork` |
| accessors | `model.rs` | none | `at`, `z0_at` | `PyNetwork` |
| errors | `error.rs` | none | formatting | the names of the kinds only |

The entry points read a file, take a port count from the caller or the `.sNp`
extension, and dispatch on the first line with content: `[Version]` goes to the
2.x reader, anything else to the 1.x one.  Both draw lines from one iterator.
In the 2.x reader three nested loops share that iterator (the header, a
continued `[Reference]` list, an information block), and behind `[Network
Data]` a fourth takes over; most of what can go wrong there is a loop that has
another loop's rules, or gives the stream back one line too early or late.

What makes each component correct:

* **1.x reader**: the inference is exact.  It accepts exactly the files that
  divide into whole, ascending data sets followed by noise rows that step back
  into the sweep, and stores every value where the standard says it belongs.
* **2.x reader**: it accepts exactly the files whose keywords, counts, data and
  noise agree with each other, reads every token once whatever the line breaks,
  and lets no declaration reserve more than the file could hold.
* **both**: one answer, frequencies strictly ascending, whole matrices, errors
  that name the line where the mistake began.
* **option line**: accepted exactly if every part is known, no category comes
  twice and the R values stand in one run behind R; read the same in any order.
* **keyword line**: one of thirteen names in the standard's spelling, or an error.
* **dispatch**: no character of data is lost before a reader sees it, the reader
  suits the file, and the port count asked for is the caller's before the name's.
* **Python layer**: an object's arrays have the documented shapes, agree with each
  other and hold the caller's (or the file's) elements whatever their layout in
  memory.

## Modules

`DataShape` is the arithmetic of data-set sizes on `usize`, scaled down to
`0..MaxUsize` so that TLC reaches the overflow.

`V1Reader` is `parse_v1` with its `DataSets`.  `pc` is the place in the scan:
`"line"` is the loop of `parse_v1` (`SkipEmptyLine`, `TakeOptionLine`,
`IgnoreOptionLine`, `RejectKeyword`, `TakeDataLine`, `ReachEnd`), `"push"` and
`"extend"` are the two halves of `push_line` around its first flush, `"full"`
and `"last"` the flush after it and the one of `finish`, `"close"` the tail of
`parse_v1`.  A flush is one of `AddPoint`, `BeginNoise`, `AddNoisePoint` and
`RejectSet`; `SetFault` lists its checks in the order the code makes them.
A value is the place it was read from, `<<line, column>>`, so the finished
network says which number of the file every matrix entry is.

`V2Header` is `Header::read` with `apply` and the two blocks it consumes
itself; `V2Reader` extends it with `finish`, the section loop and the two
accumulators.  `header` is the `Header` struct.  `pc` names the loop that gets
the next line.  `NetworkData::push_line` is modelled token by token (`PushToken`,
`AddPoint`, `RejectToken`), because a point may open and close anywhere in a
line; everything else takes one line per step.  `Matrix` follows
`NetworkData::flush`: the entries are resized to zero and written through
`entry_order`, mirrored for a triangle, the last write winning.

`SweepReader` is what both promise: a sweep that only ever grows by whole
ascending points of the port count asked for, noise only behind a two-port
sweep, one reference for each point and port of an accepted network, and one
answer.  Each reader instantiates it as `Promise`; the refinement mapping takes
the port count to be unknown until there is a point, the count asked for to be
the reader's `hint`, and the references to be the length of `z0`.

`OptionLine` is the loop over an option line's tokens, in the place `pc`:
`"token"` is the outer loop (`TakeWord`, `TakeR`, `RejectToken`, `ReachEnd`) and
`"list"` the inner one that takes numbers behind R (`TakeValue`, `EndList`).

`LogicalLines` and `KeywordLine` are the text level: pure operators on sequences
of characters, a run of letters or digits counting as one.

`ReadFile` extends both with one call of an entry point.  `stage` is how far it
has come: `"open"` (`OpenFile`: the bytes and the port count), `"endings"`,
`"marker"` and `"sniff"` (the three steps of `parse`), `"reading"`.  From there
the call is a reader's; `ReadFile` instantiates `SweepReader` and takes its steps
as the reader's, which is all that the layers above may rely on, and which
`v1_ports` and `v2_data` show both readers to keep.  `PyNetwork` extends it with
the Python objects: `HandOver` is `read` behind an answer of the core, `Construct` is
`Network(f, s, z0)`.  A caller's array is a view, with shape, strides and first
address, and an element is the address it is read from, so that an object says of
each of its elements where it came from.

`V1Grammar` and `V2Grammar` say what a file means without scanning it, with
sets of lines, and state the readers' properties against that meaning.  They
share no operator with the readers' decisions except the data they talk about.

`MCDataShape`, `MCV1Reader`, `MCV2Reader`, `MCOptionLine` and `MCReadFile` define
the instances.
`V1Proofs`, `V1FileProofs`, `V2Proofs`, `V2FileProofs`, `OptionProofs`,
`DataShapeProofs` and `PyNetworkProofs` hold the theorems, `CountingLemmas` what
they need about division, running totals, folds and concatenation.  The two
`FileProofs` relate a reader to the whole file.

### What is abstracted

* Numbers.  A frequency is an integer; beyond `MaxHz` (`MaxFinite`) it stands
  for infinity or NaN, below for minus infinity.  Complex conversion is the
  question whether its result is finite: a flag per line in `V1Reader`
  (`conv`), the rule of the three formats in `V2Reader`.  There minus infinity is
  a legal dB magnitude, and a finite one above `MaxDecibels` is none: `10^(a/20)`
  is infinite from about 6165 dB on, and `to_complex`'s result is refused.  An overflow of the scaling from GHz to Hz, or of `rn *
  R`, is not told apart from a number that was infinite as written.
* Text.  To the readers a line is its kind and what they decide from; the
  option-line and keyword parsers, modelled on their own, give verdicts.  In
  `ReadFile` a character is a letter run, a digit run, a bracket, a dash, a bang,
  the marker, or one of four kinds of white space; case is folded, but for
  extensions.  The wording of errors is left out, and so is the metadata
  copied through unchanged.
* Option-line tokens are their lower-case spelling.  `Ohms` are the tokens that
  read as a positive finite number, `NotOhms` those that read as any other.
* The lossy decoding of a file's bytes: the text is what came out of it.
* NumPy and ndarray.  Strided access, iteration in logical order, `reshape`
  of a flat vector and indexing of a C-ordered array are modelled by what they do.
* `file_values`, half the file's bytes, is the number of tokens plus a slack;
  the smallest slack used, 40, is below what any complete 2.x header spends on
  its keywords.
* An error is its kind and line.  The two uses of `DeclaredCountMismatch` are
  told apart; malformed and unknown keywords are not.

## Runs

| run | question | bounds | states |
|---|---|---|---|
| `data_shape` | do sizes and port counts name each other, with no wrapped size? | an 8-bit `usize`, every number up to 300 | 301 |
| `v1_ports` | is the odd-count inference exact for one, two and three ports? | all files of up to 4 data lines of 3 to 19 values at two frequencies; port counts none, 0, 2, 3, 9 | 660k |
| `v1_mixed` | do headers, comments, references, broken lines, the noise section and termination hold? | all files of up to 4 lines of 18 kinds; all two-port files of up to 5 data lines at three frequencies | 849k |
| `v2_header` | does the keyword loop accept exactly the right headers, and reserve within the file? | every file one edit from two full files, two edits from a minimal one | 190k |
| `v2_data` | is every token read once, in its place, whatever the line breaks? | all formats and orders up to three ports, any two breaks; one wrong, missing or extra token; all noise sections of three lines; with and without a count from outside | 224k |
| `option_line` | does the greedy R list mean what the line says? | all lines of up to 6 tokens of 10 kinds | 3.1M |
| `read_file` | does the right reader get the whole file and the right count, and the caller the right arrays? | all texts of up to 5 characters of 6 kinds; up to 4 characters behind `[` and behind `[version`; all separators in a four-word name; extensions of up to 4 characters; three layouts of each array, 2 and 3 points and ports and none | 257k |

Four lines of a 1.x file are enough for every phase of the scan: a complete set,
a set completed by a continuation, a third that opens over an incomplete one,
and one left for the end of the file; noise needs a fifth for a second row behind a wrapped point.
In a 2.x file almost every random sequence is refused at the first keyword,
so the instances start from valid files and edit them: dropping, inserting,
replacing and moving lines breaks each keyword rule alone, and two edits reach
the combinations of blocks inside the header.  Three ports are the smallest
count at which the rows of a triangle differ from the two-port special case.

Six tokens hold every part of an option line once, with two values, or any two
faults with what stands around them.  Five characters hold two lines with a
marker, a comment and white space behind it; 27 more texts hold a four-word
name with each choice of separators.  Extensions of four characters reach a sign,
a leading zero and two digits, and one more is a number too large for the
scaled-down `usize`.

The 2.x instances have a frequency below `-MaxFinite`, values above and below it,
and `MaxDecibels` = 7 with a magnitude just above it; the noise rows of both
versions include one whose frequency is minus infinity, which still ascends.

`MaxUsize` is 40 for the 1.x runs, so that the size of a five-port set already
overflows, and 255 for 2.x, where a file may declare seven ports (99 values,
more than the file holds) or 99 (no size at all).

Five further runs state what a document or comment of the repository says and
TLC refutes:

* `v2_list`: "every declared count is bounded by the file itself before
  anything is sized from it" (ADR 0008).  `read_reference` reserves one slot
  for each declared port before the check in `finish`.
* `v2_options`: "option lines after the first are ignored".  Only the header
  loop ignores them; behind `[Network Data]` and inside a `[Reference]` list
  they are read as numbers.
* `v2_comments`: `Metadata.comments` are the "comment lines seen before the
  first data line".  Those behind `[Network Data]`, in a continued list or in an
  information block are lost.
* `v2_information`: everything in an information block is skipped.  A bracketed
  keyword the reader does not know is refused instead.
* `carriage_returns`: text with carriage returns as its only line endings is refused
  before it is split into lines.  `parse` tests the text before the marker and the
  white space behind it come off; where the only line feed stands there, the
  reader is given a text without any.

### Properties

Beside one type invariant for each reader:

* `AcceptsExactlyTheGrammar` and `ReadsWhatTheFileSays` compare the scan with
  the declarative meaning, once for each version.  They cover framing, noise
  boundary, duplicates, keyword order, sections, counts and placement.
* `PairsStayTogether`, `BlockStaysShort`, `BlamesTheSetItRejects`,
  `NothingPanics`, `SweepAscends`, `NoiseFollowsTwoPortSweep` and
  `NoiseIsTerminal` hold at every step of the 1.x scan.  `SweepAscends`, of both
  versions, speaks of both sweeps: frequencies and noise frequencies are finite
  and ascend.
* `EveryEntryIsWritten`, `PointKnowsItsLine`, `DataFitsTheFile`: a 2.x matrix
  has no entry left at zero and a triangular one is symmetric; a point opened in
  the middle of a line knows that line; reservations and contents stay
  within what the file could hold.
* `KeepsHeaderComments`, `ReferencesEveryPort`: metadata and reference
  impedances.
* `KeepsThePromise`: each reader implements `SweepReader`.
* `AcceptsExactlyLegalLines`, `MeansWhatItSays`: the option line's loop against a
  reading of the line without order.
* `KeepsEveryCharacter`, `KeywordsAreSpelledExactly`, `ReaderSuitsTheFile`,
  `CountIsHonoured`: the way to a reader.  The first and the third speak of positions
  in the text as it was handed in, without splitting it.  `ReaderSuitsTheFile` has
  both directions: of the texts that are not of carriage returns alone, those whose
  first line with data is `[Version] 2.0` or `2.1` come to the 2.0 reader, those
  whose data opens with no bracket to the 1.x reader, the others to none; an error
  before the reader counts, so that a version refused by mistake is a violation.
* `ObjectsAreWhole`, `ObjectsHoldWhatWasGiven`, `ReadRaisesOnlyTouchstoneError`:
  the Python objects.  The last holds because the readers keep `SweepReader`'s promise
  on lengths, which is why that promise speaks of the references.
* `EveryFileIsAnswered`, `EveryCallReturns`: each call returns.

Liveness assumes `WF_vars(Next)` and nothing else: a parse is one function call
on the caller's thread, and a step that can be taken is taken.  In `SweepReader` the
fairness is on answering.  `ReadFile` takes its own steps fairly and takes from the
reader only that fairness; `PyNetwork` adds its own two steps.

Each reader's `Done` is a stuttering step of the returned call, so that a
deadlock reported by TLC is a reader stuck on a line.

## Proofs

`V1Proofs` proves for every set of files, every port count and every `MaxUsize`
and `MaxHz`, from the assumptions of `V1Reader` and `DataShape` only
(a file is a sequence of lines, a port count is a number or absent, `MaxHz` and
`MaxUsize` are numbers):

* `TypeCorrect`, `SweepsAscend`, `NoiseIsBehindTheSweep`, `PairsAreWhole`,
  `ReaderNeverPanics`, `SetsCloseEagerly`: `Spec => []P` for the invariants of
  the same meaning; `SweepClosesForGood`: the noise section is terminal.
* `RefinesSweepReader`: every behaviour is, through the mapping, one of
  `SweepReader`'s (its safety part), references and the count asked for
  included.  It needs the lemma `HintIsKept`: where a count was asked for, the
  reader's port count is that one or not yet known.
* `LengthNamesOnePort`: `nports_from_data_set` inverts `1 + 2n^2`.

The inductive invariant `IInv` adds to the type invariant what the properties
rest on: where the scan stands (`pc`) against what is buffered, that a block
opens with the first value of the line it is blamed on, that the values behind
it are neighbours in pairs, which is what the odd-count rule gives, and that
matrix, sweep and port count keep step.  `PairsStayTogether`
alone is not inductive: the pairs are only formed when a block is flushed, so the
invariant has to speak of the block.  `StepPreserves` has one lemma for each
action; `RefinesSweepReader` maps each action to a step or a stutter.

`V2Proofs` proves for every set of files, port counts and slacks and every
`MaxUsize`, `MaxFinite` and `MaxDecibels`, from the assumptions of `V2Header` and `DataShape`:

* `SweepsAscend`, `PointsKnowTheirLine`: `Spec => []P` for `SweepAscends` and
  `PointKnowsItsLine`; `MatricesAreWhole`: the matrix holds `n^2` entries for
  each point at every moment, in every format.
* `RefinesSweepReader`: as for 1.x, the safety part of `SweepReader`.
* `DataAlwaysFits`, `EntriesAreWritten` and `TypesHold`, below.

`IInv` says what the header leaves behind it.  While one of the header's loops
has the next line there is no data (`ControlInv`); once the plan is frozen the
counts are positive and the port count is the caller's, if there is one
(`Frozen`): an accepted file therefore has a point (`AcceptMaps`), of the port count
asked for (`PointMaps`); in the noise section there are two ports.  `BlockInv` speaks of the first
token of an open point, because a point's line is fixed when it opens and used
when it closes.  `HeaderOutcome` is all the header loops do to the data's side, so
that their seventeen actions are one case of the induction (`ReadHeaderPreserves`).

`OptionProofs` proves for every option line of any length and every vocabulary of
numbers that shares nothing with the words:

* `AcceptsLegalLines`: the loop accepts exactly the lines `AcceptsExactlyLegalLines`
  calls legal.
* `OptionsMeanTheLine`: the options of an accepted line are `MeansWhatItSays`.

The argument is that the tokens up to `pos` always begin a legal line (`Prefix`):
all known, no category twice, R followed by a value, values in one run behind R.
`seen` is the set of their categories and `options` what they say.  The R list needs
more, the place it has reached: none yet, being read and ending at `pos`, or
behind, ended by a token that is no number.  Each error is shown to stand at a
token no legal line has there, and the end of the line makes the prefix the line.

`DataShapeProofs` proves the three properties of `data_shape` for every width
of `usize` and every number: `EverySizeIsExact`, `EveryLengthNamesPorts`,
`EveryTriangleFits`.

`V1FileProofs` proves five properties that relate a reader's state to all of the
file, behind it and still to come:

* `BlameIsRight` (`BlamesTheSetItRejects`): until the answer, every data line with
  values before the open block has become data and none from it on has, and no
  line of the block but its first could have opened a set (`BlameInv`, `OpenBlock`).
* `HeaderCommentsAreKept` (`KeepsHeaderComments`): the comments kept are ascending
  and are those the scan has passed before the first data line.
* `EveryPortIsReferenced` (`V1Grammar`'s `ReferencesEveryPort`): the tiling of one
  point's references over all points puts port p's at each multiple of the port
  count (`FlattenLaysOut`).
* `FilesReadAsTheyDivide` (`ReadsWhatTheFileSays`): what an accepted file is read as.
  `V1Grammar` cuts the whole file at its opening lines; `SetsUpTo` gathers the same data
  sets line by line (`SetsAreDataSets`), as the reader meets them.  `SetsInv` then says
  that the sets on the lines taken so far are those read into points and noise points,
  in order and value for value (`IsRead`), and behind them the open block.  It excepts
  one kind of state, a block that begins with an even line (`Poisoned`): such a block is
  part of no set, and no flush takes it.  At the end of the file nothing is open and the
  sets are all of the file's; that the sweep rises and the noise begins at or below its end
  (`SweepsRise`) makes the reader's boundary the only one (`WhatIsReadDivides`).
* `GrammarIsExact` (`AcceptsExactlyTheGrammar`): nothing is accepted that is not
  well-formed, from the same `FileInv` (`AcceptedIsWellFormed`), and nothing
  well-formed is refused.  For that direction `GoodInv` is inductive with it: on a
  well-formed file no call has failed and no block is `Poisoned`.  Each error is shown
  impossible from where the reader stands in the file (`Stands`).  The sets read so far
  and the open block begin the sets of the file (`IsEarlier`, `SetsOnlyGrow`), the count
  gone by is the file's (`PortsKnown`) and the noise has begun in the right place or not
  yet (`StandsAtBoundary`).  So a block about to be closed is the file's next set,
  whether an odd line, its length or the end of the file closes it (`NextSet`), and
  passes every check (`SetPasses`).  What a full block and an inferred port count rest on
  is remembered by `ScanInv`.

The other three need more than `IInv`:

* `DataAlwaysFits` (`DataFitsTheFile`): nothing a header declares makes the data
  reserve or hold more than the file could contain.  On its own this is not inductive:
  that stored points stay within `fileValues` follows from the tokens they took.
  `BudgetInv` therefore counts: points times their size and the tokens of the open
  point are at most the tokens passed (`SpentInv`), which are at most those of the
  file, which are at most `fileValues`.  `Before(f)` is the running total of tokens by
  line; `TokensAddUp` shows the file's total to be its last value.
* `EntriesAreWritten` (`EveryEntryIsWritten`): the heart is `OrderIsWhole`: in each
  format and order and for every port count, `entry_order` or its mirror names each
  row and column, and nothing outside the matrix.  So the last writer of each entry
  exists (`MatrixEntry`); a triangle is symmetric because both entries have the same
  writers; and appending a point's matrix leaves the earlier ones where they were
  (`MirroredJoins`).
* `TypesHold` (`TypeOK`), from `RestHolds`: no data is read without an option line
  whose values name every port.

`V2FileProofs` proves, for the same constants, what relates the 2.x reader to the whole
file:

* `EveryPortIsReferenced` (`V2Grammar`'s `ReferencesEveryPort`).  The property looks
  the reference up in the whole file, the reader collects it line by line, so `ReferInv`
  says what the lines behind the scan settle: `seen` holds `[Reference]` and `[Begin
  Information]` exactly when their line has been passed (`SeenInv`), `list` or
  `header.reference` is what the lines from `[Reference]` to here hold (`ListInv`,
  with `Collected` the running list and `ListAddsUp` its last value), the information
  block passed is closed unless it is being read (`BlocksInv`), and `header.options`
  is the first option line outside that block (`OptionsInv`).
* `FilesAreReadAsTheySay` (`V2Grammar`'s `ReadsWhatTheFileSays`): the points, the matrix
  entries and the noise lines of an accepted file are what the whole file says they are.
  `ReadingInv` has five parts.  `NotesInv`: what the header holds under a keyword is what
  its first line says, or the line has not been passed.  `SectionsInv`: the place in the
  scan tells between which of `[Network Data]`, `[Noise Data]` and `[End]` the lines passed
  end, so that a line read as data is one of the file's `NetworkLines`, and one read as
  noise one of its `NoiseLines` (`LineIsClassified`).  `FramesInv`: the tokens taken so far,
  cut every `PointSize`, are the points added and the open block; point k's first
  token is frequency k and the pair `WriterOf` an entry stands at that entry
  (`Sweeps`, `Fills`, `Opens`).  `NoiseInv`: the noise points are the noise lines passed.
  `FormatInv`: an accepted format is a named one.  At the end of the file these speak of
  all of it.  What is left is arithmetic: `OrderIsNumbered` shows that the k-th pair
  `entry_order` writes is the one whose number the standard's formula gives, n(n-1)/2
  and all, in each format, which `WriterOf` inherits (`PairIsTheFiles`).
* `FilesAreAcceptedAsTheySay` (`V2Grammar`'s `AcceptsExactlyTheGrammar`): both directions.
  The grammar says what a whole file is, with sets of its lines; `GrammarLineByLine`
  takes it apart into what is asked of each line in its file (`LineHolds`) and of the
  file as a whole (`WholeHolds`).  `HeaderInv` says that each line passed is one the
  grammar allows and which keywords they held; `NoiseRowsInv` and `TokensInv` say what
  the noise rows and the tokens kept have passed.  At the end of the file these and the
  invariants above make the file one of the grammar (`EndIsGood`).  For the other
  direction `AcceptInv` has nothing to remember: each reason to refuse a line, the plan,
  a point or the end of the file is shown, from the same invariants, to be something
  the grammar forbids (the lemmas named `...IsNotRefused`).

`PyNetworkProofs` proves all of the Python layer, the port count and the way of a
text to its reader, from what `SweepReader` promises and nothing else about a
reader, for every set of calls in which a text is a sequence of characters
(`CallsAssumption`) and a constructor's arrays have ranks one and three
(`ViewsAssumption`: the types of `Network::new`'s parameters), and for positive
port counts:

* `OnlyTouchstoneError`, `EveryObjectIsWhole`, `EveryElementIsGiven`, for
  `ReadRaisesOnlyTouchstoneError`, `ObjectsAreWhole`, `ObjectsHoldWhatWasGiven`.
  `SweepInv` keeps points, ports, entries and references in step as the promise
  has it; `ObjectInv` says which network or arguments an object was made from.  The
  rest is arithmetic: a place in a row of `a * b * c` elements splits into the
  index it came from (`IndexOfThree`), and indexing a C-ordered array goes back
  (`ItemOfThree`).  How an address comes about from strides is never looked at.
* `EveryCountIsHonoured` (`CountIsHonoured`): `CountInv` follows the asserted count
  from the call through each stage; `ExtensionNames` shows that reading an
  extension's digits from the left gives the number whose decimal digits they are,
  for an extension of any length.
* `EveryCharacterIsKept`, `EveryKeywordIsSpelled`, `TheReaderSuitsTheFile`, for
  `KeepsEveryCharacter`, `KeywordsAreSpelledExactly`, `ReaderSuitsTheFile`: texts of
  any length over any characters.  `TextInv` says which part of the call's text each
  stage still has, all of it or all but the marker and the white space before it,
  and that the reader was chosen, or refused, by its first content.  The properties speak of
  positions in the text and of the line feeds before them, the code of the lines
  between two breaks; `FeedsAreCounted` makes the number of a line the number of
  feeds before it (`LineFeeds` is a recursive function for this proof's sake),
  `LinesAreBetweenBreaks` and `SameLine` put each character on its line, and
  `LineHoldsItsInk` shows what trimming leaves to be the span of the line's ink, from
  its least to its greatest position.  A keyword is then matched word by word
  (`SpelledIsParsed`).  A version line is its first four characters and no more: what
  `sniff_version` takes has four (`VersionLineHasFour`), and a line that spells the
  keyword, ends with a known version and has four is taken (`DeclaredIsRead`).

Together with the two `RefinesSweepReader` theorems the last module closes the
chain: the readers keep the promise, and from the promise Python gets whole arrays.

### How induction is done

No induction theorem of the library can be used, because each takes an operator as a
parameter.  A least element needs none: `LeastElement` follows from well-founded
minima of a set (`WFMin`), and `StepByStep` from it, so that what is to be shown for all
k is stated as a set of numbers.  `RecursionDefines` and `FoldIsDefined` show in the
same way that a recursive function and a fold over a sequence exist, after which
a fold is used through its running values (`Multiplies`, `Adds`, `IsDecimal`).
`MinIsLeast` and `MaxIsLargest` do it for the least and the greatest element.

### Only model-checked

* Liveness and fairness, ENABLED.
* The invariants that speak of sequences of any length (`SetsInv`, `ReadingInv`) cannot be
  evaluated by TLC; what follows from them, the properties, is checked on every run.

## Not modelled

* Floating-point values, number parsing, and the conversion to complex: a value
  is where it stands.  In particular `rn * R` of two finite numbers may be
  infinite (v1.rs:487), and no property speaks of it.
* `error.rs` beyond the names of the kinds: `Display` strings and the layout of the
  error enum.
* The lossy UTF-8 decoding of a file, and which operating-system errors there are.
* `as_str`, `to_hz` and `nfreqs` of `model.rs`, and the Python getters and
  `__repr__`: tables and reads of one field.

A writer, a fuzzer and directory reading are named as plans in the repository's
documents and have no code.

## Plan

1. done: every component but error formatting is modelled and checked.
2. done: the readers' safety and their refinement of `SweepReader`, the option
   line's parser, both readers' exactness in what they accept and what they read,
   the 2.x reader's reservations, matrices and references, the Python objects, the
   port count and the text level are proved.
3. open: nothing that the prover reaches; liveness stays with TLC.
