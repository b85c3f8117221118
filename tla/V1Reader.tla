------------------------------- MODULE V1Reader -------------------------------
(***************************************************************************)
(* The Touchstone 1.x reader: parse_v1's loop over logical lines and the   *)
(* DataSets accumulator it feeds (parser/v1.rs).                           *)
(*                                                                         *)
(* Nothing in a 1.x file announces where a data set starts, how many ports *)
(* the network has or where the noise section begins; the reader infers    *)
(* all three while it scans.  One action is one step of that scan: a line  *)
(* taken by the loop, its values appended to the block, or the block       *)
(* flushed into a frequency point or a noise point.                        *)
(*                                                                         *)
(* A value is known by where it stands: <<line, column>>.  The converted   *)
(* network therefore records which file value each entry came from, which  *)
(* is what the placement properties are about.  A line carries only what   *)
(* the reader's decisions depend on:                                       *)
(*   kind  what the first characters make of it                            *)
(*   form  "malformed" if its own parser rejects it, "unsupported" for an  *)
(*         option line asking for other than S-parameters                  *)
(*   n     how many values a data line holds, R values on an option line   *)
(*   hz    the first value times the file's frequency unit; beyond MaxHz   *)
(*         it is infinite or NaN, below -MaxHz it is minus infinity        *)
(*   conv  every pair on the line converts to a finite complex number      *)
(*   fin   every value on the line is finite as written                    *)
(***************************************************************************)
EXTENDS DataShape, Sequences

CONSTANTS Files,    \* the files that may be handed to the reader
          Hints,    \* ParseOptions.nports: a port count, or None
          MaxHz     \* the largest finite frequency

Kinds == {"blank", "comment", "option", "keyword", "data"}
Forms == {"ok", "malformed", "unsupported"}

Lines == [kind : Kinds, form : Forms, n : Nat \ {0}, hz : Int,
          conv : BOOLEAN, fin : BOOLEAN]

ASSUME FilesAssumption == Files \subseteq Seq(Lines)
ASSUME HintsAssumption == Hints \subseteq Nat \cup {None}
ASSUME MaxHzAssumption == MaxHz \in Nat

VARIABLES
    file,        \* the input: its logical lines
    hint,        \* the port count supplied by the caller or the extension
    pc,          \* where the scan is inside parse_v1 and push_line
    pos,         \* lines taken so far
    optionLine,  \* line of the option line in force, 0 while there is none
    comments,    \* lines kept for Metadata.comments
    nports,      \* DataSets.nports
    block,       \* values of the data set being accumulated
    blockLine,   \* line the block started on
    freqHz,      \* one frequency per point
    s,           \* row-major matrix entries, each the pair it was read from
    inNoise,     \* DataSets.noise.is_some()
    noiseLine,   \* line the noise section was found to start on
    noise,       \* the noise points
    z0,          \* per point and port, which R value is its reference
    outcome      \* the Result: [kind, line]; "reading" until there is one

input == <<file, hint>>
sets  == <<nports, block, blockLine, freqHz, s, inNoise, noiseLine, noise>>
vars  == <<input, pc, pos, optionLine, comments, sets, z0, outcome>>

Init ==
    /\ file \in Files
    /\ hint \in Hints
    /\ pc = "line"
    /\ pos = 0
    /\ optionLine = 0
    /\ comments = <<>>
    /\ nports = hint
    /\ block = <<>>
    /\ blockLine = 0
    /\ freqHz = <<>>
    /\ s = <<>>
    /\ inNoise = FALSE
    /\ noiseLine = 0
    /\ noise = <<>>
    /\ z0 = <<>>
    /\ outcome = [kind |-> "reading", line |-> 0]
-----------------------------------------------------------------------------
Answer(kind, line) ==
    /\ outcome' = [kind |-> kind, line |-> line]
    /\ pc' = "done"

(* An error abandons everything read so far.                                 *)
Fail(kind, line) ==
    /\ Answer(kind, line)
    /\ UNCHANGED <<sets, z0>>

Finite(hz) == -MaxHz <= hz /\ hz <= MaxHz

Values(line) == [col \in 1..file[line].n |-> <<line, col>>]

(* The block's first value as a frequency: it is a line's first value.       *)
BlockHz(b) == file[b[1][1]].hz

Converts(b) == \A i \in 1..Len(b) : file[b[i][1]].conv
AllFinite(b) == \A i \in 1..Len(b) : file[b[i][1]].fin

PastLastPoint(hz) == freqHz = <<>> \/ freqHz[Len(freqHz)] < hz
PastLastNoise(hz) == noise = <<>> \/ noise[Len(noise)].hz < hz
-----------------------------------------------------------------------------
(* parse_v1's loop: one line of the file.                                    *)

(* The slip of asking only whether a point is complete, so that a comment    *)
(* inside the first wrapped data set counts as a header comment.             *)
BeforeFirstPoint == freqHz = <<>>

BeforeAnyData == freqHz = <<>> /\ block = <<>>

NextLine == pos + 1

LineIs(kind) == pc = "line" /\ pos < Len(file) /\ file[NextLine].kind = kind

(* The slip of a blank line looked at and never consumed.                    *)
SkipEmptyLineInPlace ==
    /\ LineIs("blank") \/ LineIs("comment")
    /\ UNCHANGED vars

SkipEmptyLine ==
    /\ LineIs("blank") \/ LineIs("comment")
    /\ comments' = IF file[NextLine].kind = "comment" /\ BeforeAnyData
                   THEN Append(comments, NextLine)
                   ELSE comments
    /\ pos' = NextLine
    /\ UNCHANGED <<input, pc, optionLine, sets, z0, outcome>>

TakeOptionLine ==
    /\ LineIs("option")
    /\ optionLine = 0
    /\ pos' = NextLine
    /\ \/ /\ file[NextLine].form = "ok"
          /\ optionLine' = NextLine
          /\ UNCHANGED <<pc, sets, z0, outcome>>
       \/ /\ file[NextLine].form = "malformed"
          /\ Fail("OptionLineFault", NextLine)
          /\ UNCHANGED optionLine
       \/ /\ file[NextLine].form = "unsupported"
          /\ Fail("UnsupportedParameter", NextLine)
          /\ UNCHANGED optionLine
    /\ UNCHANGED <<input, comments>>

IgnoreOptionLine ==
    /\ LineIs("option")
    /\ optionLine # 0
    /\ pos' = NextLine
    /\ UNCHANGED <<input, pc, optionLine, comments, sets, z0, outcome>>

RejectKeyword ==
    /\ LineIs("keyword")
    /\ pos' = NextLine
    /\ IF file[NextLine].form = "ok"
       THEN Fail("V2KeywordInV1File", NextLine)
       ELSE Fail("KeywordFault", NextLine)
    /\ UNCHANGED <<input, optionLine, comments>>

TakeDataLine ==
    /\ LineIs("data")
    /\ pos' = NextLine
    /\ \/ /\ optionLine = 0
          /\ Fail("DataBeforeOptionLine", NextLine)
       \/ /\ optionLine # 0
          /\ file[NextLine].form = "malformed"
          /\ Fail("InvalidNumber", NextLine)
       \/ /\ optionLine # 0
          /\ file[NextLine].form # "malformed"
          /\ pc' = "push"
          /\ UNCHANGED <<sets, z0, outcome>>
    /\ UNCHANGED <<input, optionLine, comments>>
-----------------------------------------------------------------------------
(* DataSets::push_line.                                                      *)

(* The slip of closing on every odd line, also when nothing is buffered.     *)
ClosesEmptyBlock == Odd(file[pos].n)

(* ADR 0006: an odd count opens a new data set, so the block is complete.    *)
ClosesBlock == Odd(file[pos].n) /\ block # <<>>

(* Slips in the boundary rule of ADR 0007: a strict bound (p10's wording),   *)
(* and a rule that looks at the length of a row but not at its frequency.    *)
AtNoiseBoundaryStrict(n, b) ==
    /\ ~inNoise
    /\ n = 2
    /\ Len(b) = NoiseValuesPerSet
    /\ freqHz # <<>>
    /\ freqHz[Len(freqHz)] > BlockHz(b)
AtNoiseBoundaryByLength(n, b) ==
    /\ ~inNoise
    /\ n = 2
    /\ Len(b) = NoiseValuesPerSet
    /\ freqHz # <<>>

(* A frequency that steps back into the sweep, five values into a block.     *)
AtNoiseBoundary(n, b) ==
    /\ ~inNoise
    /\ n = 2
    /\ Len(b) = NoiseValuesPerSet
    /\ freqHz # <<>>
    /\ freqHz[Len(freqHz)] >= BlockHz(b)

(* expected_len, and the error it reports as None.                           *)
ExpectedLen(n) == IF inNoise THEN NoiseValuesPerSet ELSE ValuesPerPoint(n)

(* The slip of closing a set one value late.                                 *)
IsOverfull(n, b) == Len(b) > ExpectedLen(n) \/ AtNoiseBoundary(n, b)

IsFull(n, b) == Len(b) >= ExpectedLen(n) \/ AtNoiseBoundary(n, b)

(* The slip of naming the latest line a set touched, not its first.          *)
LatestLine == pos

(* The slip of counting lines from one twice.                                *)
OpenedAfter == IF block = <<>> THEN pos + 1 ELSE blockLine

OpenedOn == IF block = <<>> THEN pos ELSE blockLine

ExtendBlock ==
    /\ pc = "extend" \/ (pc = "push" /\ ~ClosesBlock)
    /\ \/ /\ nports # None
          /\ ExpectedLen(nports) = None
          /\ Fail("UnusablePortCount", pos)
       \/ /\ nports # None => ExpectedLen(nports) # None
          /\ block' = block \o Values(pos)
          /\ blockLine' = OpenedOn
          /\ pc' = IF nports # None /\ IsFull(nports, block') THEN "full" ELSE "line"
          /\ UNCHANGED <<nports, freqHz, s, inNoise, noiseLine, noise, z0,
                         outcome>>
    /\ UNCHANGED <<input, pos, optionLine, comments>>
-----------------------------------------------------------------------------
(* DataSets::flush and flush_noise, called by push_line before and after it  *)
(* extends the block and by finish at the end of the file.                   *)

Flushing ==
    \/ pc = "push" /\ ClosesBlock
    \/ pc \in {"full", "last"}

AfterFlush ==
    CASE pc = "push" -> "extend"
      [] pc = "full" -> "line"
      [] pc = "last" -> "close"

(* The port count, read off the first complete data set if nobody gave it.   *)
SetPorts == IF nports = None THEN NportsFromDataSet(Len(block)) ELSE nports

NoFault == "none"

(* The slip of a noise row whose frequency nobody looks at.                  *)
NoiseFaultAtAnyFrequency ==
    IF Len(block) # NoiseValuesPerSet THEN "MalformedNoiseLine"
    ELSE IF ~AllFinite(block) THEN "NonFiniteNoiseValue"
    ELSE IF ~PastLastNoise(BlockHz(block)) THEN "NoiseFrequencyNotAscending"
    ELSE NoFault

NoiseFault ==
    IF Len(block) # NoiseValuesPerSet THEN "MalformedNoiseLine"
    ELSE IF ~Finite(BlockHz(block)) THEN "InvalidNumber"
    ELSE IF ~AllFinite(block) THEN "NonFiniteNoiseValue"
    ELSE IF ~PastLastNoise(BlockHz(block)) THEN "NoiseFrequencyNotAscending"
    ELSE NoFault

(* Slips: a completed set's length, or its place in the sweep, unchecked.    *)
PointFaultIgnoringLength(n) ==
    IF ValuesPerPoint(n) = None THEN "UnusablePortCount"
    ELSE IF Len(block) < ValuesPerPoint(n) THEN "WrongValueCount"
    ELSE IF ~PastLastPoint(BlockHz(block)) THEN "FrequencyNotAscending"
    ELSE IF ~Converts(block) THEN "NonFiniteValue"
    ELSE NoFault
PointFaultIgnoringOrder(n) ==
    IF ValuesPerPoint(n) = None THEN "UnusablePortCount"
    ELSE IF Len(block) # ValuesPerPoint(n) THEN "WrongValueCount"
    ELSE IF ~Converts(block) THEN "NonFiniteValue"
    ELSE NoFault

PointFault(n) ==
    IF ValuesPerPoint(n) = None THEN "UnusablePortCount"
    ELSE IF Len(block) # ValuesPerPoint(n) THEN "WrongValueCount"
    ELSE IF ~PastLastPoint(BlockHz(block)) THEN "FrequencyNotAscending"
    ELSE IF ~Converts(block) THEN "NonFiniteValue"
    ELSE NoFault

(* The slip of deciding set by set what a set is, as v2's keywords would.    *)
ReadsNoiseRows == inNoise /\ Len(block) = NoiseValuesPerSet

ReadsNoise == inNoise

(* The first check of flush that the block fails.                            *)
SetFault ==
    IF ReadsNoise THEN NoiseFault
    ELSE IF SetPorts = None THEN "IndeterminatePortCount"
    ELSE IF ~Finite(BlockHz(block)) THEN "InvalidNumber"
    ELSE IF AtNoiseBoundary(SetPorts, block) THEN NoiseFault
    ELSE PointFault(SetPorts)

(* push_point: pair i of a set is its values 2i and 2i + 1 (the slip forgets *)
(* the frequency in front); two ports are written S11 S21 S12 S22, any other *)
(* count row by row (the slip is row by row at two ports too).               *)
PairFromFirst(b, i) == <<b[2 * i - 1], b[2 * i]>>
Pair(b, i) == <<b[2 * i], b[2 * i + 1]>>

RowMajor(n, i) == i

FileOrder(n, i) == IF n = 2 THEN <<1, 3, 2, 4>>[i] ELSE i

PushPoint(n, b) == [i \in 1..(n * n) |-> Pair(b, FileOrder(n, i))]

AddPoint ==
    /\ Flushing
    /\ ~ReadsNoise
    /\ SetFault = NoFault
    /\ ~AtNoiseBoundary(SetPorts, block)
    /\ nports' = SetPorts
    /\ s' = s \o PushPoint(SetPorts, block)
    /\ freqHz' = Append(freqHz, BlockHz(block))
    /\ block' = <<>>
    /\ pc' = AfterFlush
    /\ UNCHANGED <<input, pos, optionLine, comments, blockLine, inNoise,
                   noiseLine, noise, z0, outcome>>

(* The slip of taking the frequency for the first noise column.              *)
NoisePointFromFront(b) == [hz |-> BlockHz(b), values |-> SubSeq(b, 1, 4)]

NoisePoint(b) == [hz |-> BlockHz(b), values |-> SubSeq(b, 2, NoiseValuesPerSet)]

BeginNoise ==
    /\ Flushing
    /\ ~ReadsNoise
    /\ SetFault = NoFault
    /\ AtNoiseBoundary(SetPorts, block)
    /\ nports' = SetPorts
    /\ inNoise' = TRUE
    /\ noiseLine' = blockLine
    /\ noise' = Append(noise, NoisePoint(block))
    /\ block' = <<>>
    /\ pc' = AfterFlush
    /\ UNCHANGED <<input, pos, optionLine, comments, blockLine, freqHz, s,
                   z0, outcome>>

AddNoisePoint ==
    /\ Flushing
    /\ ReadsNoise
    /\ SetFault = NoFault
    /\ noise' = Append(noise, NoisePoint(block))
    /\ block' = <<>>
    /\ pc' = AfterFlush
    /\ UNCHANGED <<input, pos, optionLine, comments, nports, blockLine, freqHz,
                   s, inNoise, noiseLine, z0, outcome>>

RejectSet ==
    /\ Flushing
    /\ SetFault # NoFault
    /\ Fail(SetFault, blockLine)
    /\ UNCHANGED <<input, pos, optionLine, comments>>
-----------------------------------------------------------------------------
(* parse_v1 after the loop.                                                  *)

ReachEnd ==
    /\ pc = "line"
    /\ pos = Len(file)
    /\ \/ /\ optionLine = 0
          /\ Fail("MissingOptionLine", 1)
       \/ /\ optionLine # 0
          /\ pc' = IF block = <<>> THEN "close" ELSE "last"
          /\ UNCHANGED <<sets, z0, outcome>>
    /\ UNCHANGED <<input, pos, optionLine, comments>>

(* The slip of taking whatever list the option line gives.                   *)
AnyReference(declared, n) == declared >= 1

(* reference_per_port: one R for every port, or one for each.                *)
ReferenceNamesPorts(declared, n) == declared = 1 \/ declared = n

(* The slip of repeating each reference over the sweep port by port.         *)
BroadcastByPort(declared, n, points) ==
    [i \in 1..(points * n) |->
        IF declared = 1 THEN 1 ELSE ((i - 1) \div points) + 1]

(* broadcast_reference: the per-port list once for every frequency.          *)
BroadcastReference(declared, n, points) ==
    [i \in 1..(points * n) |-> IF declared = 1 THEN 1 ELSE ((i - 1) % n) + 1]

Close ==
    /\ pc = "close"
    /\ \/ /\ freqHz = <<>>
          /\ Fail("NoDataLines", optionLine)
       \/ /\ freqHz # <<>>
          /\ ~ReferenceNamesPorts(file[optionLine].n, nports)
          /\ Fail("WrongResistanceCount", optionLine)
       \/ /\ freqHz # <<>>
          /\ ReferenceNamesPorts(file[optionLine].n, nports)
          /\ z0' = BroadcastReference(file[optionLine].n, nports, Len(freqHz))
          /\ Answer("network", 0)
          /\ UNCHANGED sets
    /\ UNCHANGED <<input, pos, optionLine, comments>>

Done == pc = "done" /\ UNCHANGED vars

Next ==
    \/ SkipEmptyLine
    \/ TakeOptionLine
    \/ IgnoreOptionLine
    \/ RejectKeyword
    \/ TakeDataLine
    \/ ExtendBlock
    \/ AddPoint
    \/ BeginNoise
    \/ AddNoisePoint
    \/ RejectSet
    \/ ReachEnd
    \/ Close
    \/ Done

(* The reader is one call that runs until it returns.                        *)
Spec == Init /\ [][Next]_vars /\ WF_vars(Next)
-----------------------------------------------------------------------------
Locations == {"line", "push", "extend", "full", "last", "close", "done"}
Places == Nat \X Nat
Pairs == Places \X Places
NoisePoints == [hz : Int, values : Seq(Places)]

(* Errors of a completed set, and the errors of the lines around the sets.   *)
SetFaults == {"IndeterminatePortCount", "WrongValueCount", "FrequencyNotAscending",
              "NonFiniteValue", "MalformedNoiseLine", "NonFiniteNoiseValue",
              "NoiseFrequencyNotAscending"}
LineFaults == {"OptionLineFault", "UnsupportedParameter", "V2KeywordInV1File",
               "KeywordFault", "DataBeforeOptionLine", "InvalidNumber",
               "UnusablePortCount", "MissingOptionLine", "NoDataLines",
               "WrongResistanceCount"}
Outcomes == [kind : {"reading", "network"} \cup SetFaults \cup LineFaults, line : Nat]

(* Every variable stays in its type.                                         *)
TypeOK ==
    /\ file \in Seq(Lines)
    /\ hint \in Nat \cup {None}
    /\ pc \in Locations
    /\ pos \in 0..Len(file)
    /\ optionLine \in 0..Len(file)
    /\ comments \in Seq(Nat)
    /\ nports \in Nat \cup {None}
    /\ block \in Seq(Places)
    /\ blockLine \in 0..Len(file)
    /\ freqHz \in Seq(Int)
    /\ s \in Seq(Pairs)
    /\ inNoise \in BOOLEAN
    /\ noiseLine \in 0..Len(file)
    /\ noise \in Seq(NoisePoints)
    /\ z0 \in Seq(Nat)
    /\ outcome \in Outcomes

(* The sweep is finite and strictly ascending at every moment, and so is the *)
(* noise sweep, on its own: a frequency is only ever appended after the one  *)
(* below it, and minus infinity, which the boundary lets pass, never is      *)
(* (flush, flush_noise).                                                     *)
SweepAscends ==
    /\ \A i \in 1..Len(freqHz) : Finite(freqHz[i])
    /\ \A i \in 1..Len(noise) : Finite(noise[i].hz)
    /\ \A i, j \in 1..Len(freqHz) : i < j => freqHz[i] < freqHz[j]
    /\ \A i, j \in 1..Len(noise) : i < j => noise[i].hz < noise[j].hz

(* ADR 0007: there is noise data only once a two-port sweep has been read,   *)
(* and it starts at or below the sweep's last frequency.                     *)
NoiseFollowsTwoPortSweep ==
    /\ noise # <<>> <=> inNoise
    /\ inNoise => /\ nports = 2
                  /\ freqHz # <<>>
                  /\ noise[1].hz <= freqHz[Len(freqHz)]

(* Nothing the code expects or asserts fails: flush is never called on an    *)
(* empty block, a sweep with points has a port count and an option line when *)
(* the file ends, and the matrix holds n^2 entries for each point.           *)
NothingPanics ==
    /\ Flushing => block # <<>>
    /\ freqHz # <<>> => nports # None
    /\ pc \notin {"line", "done"} => optionLine # 0
    /\ nports # None => Len(s) = Len(freqHz) * (nports * nports)

(* Every matrix entry comes from two neighbouring values of one line, the    *)
(* premise of the odd-count rule: a pair is never split across lines.        *)
PairsStayTogether ==
    \A i \in 1..Len(s) :
        /\ s[i][1][1] = s[i][2][1]
        /\ s[i][1][2] + 1 = s[i][2][2]

(* With the port count known a set is closed by the line that completes it,  *)
(* so between lines the block never holds a whole set or more.               *)
BlockStaysShort ==
    pc = "line" /\ nports # None /\ block # <<>> =>
        Len(block) < (IF inNoise THEN 5 ELSE nports * nports * 2 + 1)

(* The lines whose values have become data.  (A line of a single value holds *)
(* only a frequency, which does not say where it stood.)                     *)
LinesRead ==
    {s[i][1][1] : i \in 1..Len(s)}
        \cup UNION {{noise[i].values[k][1] : k \in 1..Len(noise[i].values)} :
                        i \in 1..Len(noise)}

(* A rejected set is blamed on the data line it opened on, although it is    *)
(* noticed lines later: every line before that one became data, none from it *)
(* on did, and no line between it and the one being read could have opened a *)
(* set.                                                                      *)
BlamesTheSetItRejects ==
    outcome.kind \in SetFaults =>
        /\ outcome.line \in 1..pos
        /\ file[outcome.line].kind = "data"
        /\ \A i \in (outcome.line + 1)..(pos - 1) :
                file[i].kind = "data" => ~Odd(file[i].n)
        /\ \A i \in LinesRead : i < outcome.line
        /\ \A i \in 1..(outcome.line - 1) :
                file[i].kind = "data" /\ file[i].n > 1 => i \in LinesRead

(* The noise section is terminal: once it has begun no step adds a point,    *)
(* revises one, or turns the section off again.                              *)
NoiseIsTerminal ==
    [][inNoise => inNoise' /\ UNCHANGED <<nports, freqHz, s, noiseLine>>]_vars

(* Every call returns.                                                       *)
EveryFileIsAnswered == <>(pc = "done")

Promise == INSTANCE SweepReader WITH
    Frequencies <- -MaxHz..MaxHz,
    PortCounts  <- Nat \ {0},
    Unknown     <- None,
    requested   <- hint,
    result      <- IF pc # "done" THEN "reading"
                   ELSE IF outcome.kind = "network" THEN "network" ELSE "error",
    ports       <- IF freqHz = <<>> THEN None ELSE nports,
    freqHz      <- freqHz,
    entries     <- Len(s),
    references  <- Len(z0),
    noiseHz     <- [i \in 1..Len(noise) |-> noise[i].hz]

(* The reader keeps the promise: whatever it has read is only ever extended, *)
(* point by whole point, and it answers once.                                *)
KeepsThePromise == Promise!Spec
=============================================================================
