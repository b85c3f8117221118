------------------------------- MODULE V2Reader -------------------------------
(***************************************************************************)
(* The Touchstone 2.x reader: parse_v2 from the frozen header on, with     *)
(* NetworkData and NoisePoints (parser/v2.rs).                             *)
(*                                                                         *)
(* Network data is counted, not inferred: NetworkData::push_line takes one *)
(* token after the other and closes a point at the token that completes    *)
(* it, so a line may end anywhere in a point and a point anywhere in a     *)
(* line.  One action takes one token there, and one line everywhere else.  *)
(*                                                                         *)
(* A value is known by where it stands, <<line, column>>, as in V1Reader.  *)
(***************************************************************************)
EXTENDS V2Header, SequencesExt

VARIABLES
    col,           \* tokens of the current data line taken so far
    block,         \* values of the point being accumulated
    blockLine,     \* line the point started on
    freqHz,        \* one frequency per point
    s,             \* row-major matrix entries, each the pair it was read from
    capacity,      \* what NetworkData::new reserved
    noiseStartsAt, \* line of [Noise Data], 0 while there is none
    noise,         \* the noise points
    z0             \* per point and port, which value is its reference

points == <<col, block, blockLine, freqHz, s, capacity>>
rows == <<noiseStartsAt, noise>>
dataVars == <<points, rows, z0>>
vars == <<input, pc, pos, headerVars, outcome, dataVars>>

Init ==
    /\ HeaderInit
    /\ col = 0
    /\ block = <<>>
    /\ blockLine = 0
    /\ freqHz = <<>>
    /\ s = <<>>
    /\ capacity = [freqHz |-> 0, s |-> 0]
    /\ noiseStartsAt = 0
    /\ noise = <<>>
    /\ z0 = <<>>

ReadHeader == HeaderNext /\ UNCHANGED dataVars

Fail(kind, line) == FailHeader(kind, line) /\ UNCHANGED dataVars
-----------------------------------------------------------------------------
(* Header::finish and NetworkData::new.                                      *)

n == header.nports

Full == header.matrixFormat \in {"none", "Full"}

PointSize == IF Full THEN ValuesPerPoint(n) ELSE TriangleValues(n)

(* The option line's R values name every port, if [Reference] does not.      *)
Resistances == Places(header.options)
ReferenceHolds ==
    header.reference # <<>> \/ Len(Resistances) = 1 \/ Len(Resistances) = n

PlanFault ==
    CASE header.options = 0 -> "MissingOptionLine"
      [] header.options # 0 /\ None \in {header.nports, header.nfreqs} -> "MissingKeyword"
      [] header.options # 0 /\ None \notin {header.nports, header.nfreqs} ->
            IF n = 2 /\ header.twoPortOrder = "none" THEN "MissingKeyword"
            ELSE IF hint \notin {None, n} THEN "PortCountMismatch"
            ELSE IF PointSize > fileValues THEN "DeclaredShapeExceedsFile"
            ELSE IF ~ReferenceHolds THEN "WrongResistanceCount"
            ELSE NoFault

Lesser(a, b) == IF a < b THEN a ELSE b

(* The slip of believing [Number of Frequencies].                            *)
CapacityAsDeclared == [freqHz |-> header.nfreqs, s |-> header.nfreqs * n * n]

(* Capped at what the file could hold.                                       *)
Capacity ==
    LET sweep == Lesser(header.nfreqs, fileValues)
    IN  [freqHz |-> sweep, s |-> Lesser(sweep * n * n, fileValues)]

FreezePlan ==
    /\ pc = "plan"
    /\ PlanFault = NoFault
    /\ pc' = "network"
    /\ capacity' = Capacity
    /\ UNCHANGED <<input, pos, headerVars, outcome, col, block, blockLine,
                   freqHz, s, rows, z0>>

RejectPlan ==
    /\ pc = "plan"
    /\ PlanFault # NoFault
    /\ Fail(PlanFault, IF PlanFault = "WrongResistanceCount" THEN header.options
                       ELSE dataStartsAt)
    /\ UNCHANGED pos
-----------------------------------------------------------------------------
(* entry_order: where each pair of a point belongs, as the file writes them. *)

Row(row, cols) == [i \in 1..Len(cols) |-> <<row, cols[i]>>]
UpFrom(a, b) == [i \in 1..(b - a + 1) |-> a + i - 1]

(* The slip of taking the keyword's argument for the v1 order, always.       *)
EntryOrderAsV1(ports, format, order) ==
    IF ports = 2 /\ format \in {"none", "Full"}
    THEN <<<<1, 1>>, <<2, 1>>, <<1, 2>>, <<2, 2>>>>
    ELSE FlattenSeq([row \in 1..ports |->
             Row(row, CASE format = "Lower" -> UpFrom(1, row)
                        [] format = "Upper" -> UpFrom(row, ports)
                        [] OTHER -> UpFrom(1, ports))])

EntryOrder(ports, format, order) ==
    IF ports = 2 /\ format \in {"none", "Full"} /\ order = "21_12"
    THEN <<<<1, 1>>, <<2, 1>>, <<1, 2>>, <<2, 2>>>>
    ELSE FlattenSeq([row \in 1..ports |->
             Row(row, CASE format = "Lower" -> UpFrom(1, row)
                        [] format = "Upper" -> UpFrom(row, ports)
                        [] OTHER -> UpFrom(1, ports))])

entryOrder == EntryOrder(n, header.matrixFormat, header.twoPortOrder)

Pair(b, k) == <<b[2 * k], b[2 * k + 1]>>

(* A magnitude of -inf dB is zero, one above MaxDecibels overflows; every    *)
(* other value stays what it is.                                             *)
Converts(pair) ==
    /\ IF file[header.options].arg = "db"
       THEN Value(pair[1]) <= MaxDecibels
       ELSE Finite(Value(pair[1]))
    /\ Finite(Value(pair[2]))

PastLast(hz) == freqHz = <<>> \/ freqHz[Len(freqHz)] < hz

PointFault(b) ==
    IF ~Finite(Value(b[1])) THEN "InvalidNumber"
    ELSE IF ~PastLast(Value(b[1])) THEN "FrequencyNotAscending"
    ELSE IF \E k \in 1..Len(entryOrder) : ~Converts(Pair(b, k)) THEN "NonFiniteValue"
    ELSE NoFault

Zero == <<>>

(* Which pairs of the file are written to the entry, the last of them to     *)
(* stay; the slip is to mirror nothing.                                      *)
WritersUnmirrored(row, column) ==
    {k \in 1..Len(entryOrder) : entryOrder[k] = <<row, column>>}
Writers(row, column) ==
    {k \in 1..Len(entryOrder) :
        entryOrder[k] = <<row, column>> \/ (~Full /\ entryOrder[k] = <<column, row>>)}

(* The slip of appending what the file wrote, without resizing first.        *)
MatrixAsWritten(b) == [k \in 1..Len(entryOrder) |-> Pair(b, k)]

Matrix(b) ==
    [e \in 1..(n * n) |->
        LET writers == Writers((e - 1) \div n + 1, ((e - 1) % n) + 1)
        IN  IF writers = {} THEN Zero ELSE Pair(b, Max(writers))]
-----------------------------------------------------------------------------
(* NetworkData::push_line, one token at a time.                              *)

Token == <<pos, col + 1>>
Extended == Append(block, Token)

(* The slip of v1's push_line, which looks at the block once a line.         *)
OpenedOnLineStart == IF block = <<>> /\ col = 0 THEN pos ELSE blockLine

OpenedOn == IF block = <<>> THEN pos ELSE blockLine

Advance ==
    /\ col' = col + 1
    /\ pc' = IF col + 1 = Len(file[pos].v) THEN "network" ELSE "tokens"
    /\ blockLine' = OpenedOn
    /\ UNCHANGED <<input, pos, headerVars, outcome, capacity, rows, z0>>

TakeDataLine ==
    /\ Takes("network", {"data"})
    /\ pc' = "tokens"
    /\ col' = 0
    /\ UNCHANGED <<input, headerVars, outcome, block, blockLine, freqHz, s,
                   capacity, rows, z0>>

PushToken ==
    /\ pc = "tokens"
    /\ Value(Token) # Unreadable
    /\ Len(Extended) # PointSize
    /\ block' = Extended
    /\ UNCHANGED <<freqHz, s>>
    /\ Advance

AddPoint ==
    /\ pc = "tokens"
    /\ Value(Token) # Unreadable
    /\ Len(Extended) = PointSize
    /\ PointFault(Extended) = NoFault
    /\ s' = s \o Matrix(Extended)
    /\ freqHz' = Append(freqHz, Value(Extended[1]))
    /\ block' = <<>>
    /\ Advance

RejectToken ==
    /\ pc = "tokens"
    /\ \/ /\ Value(Token) = Unreadable
          /\ Fail("InvalidNumber", pos)
       \/ /\ Value(Token) # Unreadable
          /\ Len(Extended) = PointSize
          /\ PointFault(Extended) # NoFault
          /\ Fail(PointFault(Extended), OpenedOn)
    /\ UNCHANGED pos
-----------------------------------------------------------------------------
(* parse_v2's loop over the lines behind the header.                         *)

Sections == {"network", "noise", "ended"}

SkipSectionLine ==
    /\ \E section \in Sections : Takes(section, Empty)
    /\ UNCHANGED <<input, pc, headerVars, outcome, dataVars>>

NoiseDataFault ==
    IF pc = "noise" THEN "DuplicateKeyword"
    ELSE IF block # <<>> THEN "WrongValueCount"
    ELSE IF n # 2 THEN "NoiseRequiresTwoPorts"
    ELSE IF header.nnoise = None THEN "MissingKeyword"
    ELSE NoFault

SectionKeywordFault(w) ==
    CASE w = "broken" -> "KeywordFault"
      [] w # "broken" /\ pc = "ended" -> "TrailingDataAfterEnd"
      [] w = "NoiseData" /\ pc # "ended" -> NoiseDataFault
      [] w = "End" /\ pc # "ended" -> NoFault
      [] w \notin {"broken", "NoiseData", "End"} /\ pc # "ended" -> "KeywordOutOfOrder"

TakesSectionKeyword(words) ==
    /\ \E section \in Sections : Takes(section, words)
    /\ SectionKeywordFault(Line.kind) = NoFault

BeginNoise ==
    /\ TakesSectionKeyword({"NoiseData"})
    /\ noiseStartsAt' = NextLine
    /\ pc' = "noise"
    /\ UNCHANGED <<input, headerVars, outcome, points, noise, z0>>

EndFile ==
    /\ TakesSectionKeyword({"End"})
    /\ pc' = "ended"
    /\ UNCHANGED <<input, headerVars, outcome, dataVars>>

RejectSectionKeyword ==
    /\ \E section \in Sections : Takes(section, Bracketed)
    /\ SectionKeywordFault(Line.kind) # NoFault
    /\ Fail(SectionKeywordFault(Line.kind),
            IF SectionKeywordFault(Line.kind) = "WrongValueCount" THEN blockLine
            ELSE NextLine)

(* A `#' here is a token that is no number; a noise row is measured first.   *)
RejectContent ==
    \/ /\ Takes("network", {"option"})
       /\ Fail("InvalidNumber", NextLine)
    \/ /\ Takes("noise", {"option"})
       /\ \E kind \in {"MalformedNoiseLine", "InvalidNumber"} : Fail(kind, NextLine)
    \/ /\ Takes("ended", {"option", "data"})
       /\ Fail("TrailingDataAfterEnd", NextLine)
-----------------------------------------------------------------------------
(* NoisePoints::push_line: one line, one point.                              *)

PastLastRow(hz) == noise = <<>> \/ noise[Len(noise)].hz < hz

(* The slip of testing a row's four values and not its frequency: an         *)
(* infinite one still ascends.                                               *)
RowFaultAtAnyFrequency(v) ==
    IF Len(v) # NoiseValuesPerSet THEN "MalformedNoiseLine"
    ELSE IF Unreadable \in {v[i] : i \in 1..Len(v)} THEN "InvalidNumber"
    ELSE IF \E i \in 2..Len(v) : ~Finite(v[i]) THEN "NonFiniteNoiseValue"
    ELSE IF ~PastLastRow(v[1]) THEN "NoiseFrequencyNotAscending"
    ELSE NoFault

RowFault(v) ==
    IF Len(v) # NoiseValuesPerSet THEN "MalformedNoiseLine"
    ELSE IF Unreadable \in {v[i] : i \in 1..Len(v)} THEN "InvalidNumber"
    ELSE IF ~Finite(v[1]) THEN "InvalidNumber"
    ELSE IF \E i \in 2..Len(v) : ~Finite(v[i]) THEN "NonFiniteNoiseValue"
    ELSE IF ~PastLastRow(v[1]) THEN "NoiseFrequencyNotAscending"
    ELSE NoFault

AddNoisePoint ==
    /\ Takes("noise", {"data"})
    /\ RowFault(Line.v) = NoFault
    /\ noise' = Append(noise, [hz |-> Line.v[1], line |-> NextLine])
    /\ UNCHANGED <<input, pc, headerVars, outcome, points, noiseStartsAt, z0>>

RejectNoiseLine ==
    /\ Takes("noise", {"data"})
    /\ RowFault(Line.v) # NoFault
    /\ Fail(RowFault(Line.v), NextLine)
-----------------------------------------------------------------------------
(* parse_v2 after the loop.                                                  *)

(* The slip of asking which section the file ended in.                       *)
NoiseCountFaultBySection ==
    IF header.nnoise = None THEN NoFault
    ELSE IF pc # "noise" THEN "KeywordNotPermitted"
    ELSE IF Len(noise) # header.nnoise THEN "DeclaredNoiseCountMismatch"
    ELSE NoFault

(* [Number of Noise Frequencies] and [Noise Data] require each other.        *)
NoiseCountFault ==
    IF header.nnoise = None THEN NoFault
    ELSE IF noiseStartsAt = 0 THEN "KeywordNotPermitted"
    ELSE IF Len(noise) # header.nnoise THEN "DeclaredNoiseCountMismatch"
    ELSE NoFault

EndFault ==
    IF block # <<>> THEN "WrongValueCount"
    ELSE IF Len(freqHz) # header.nfreqs THEN "DeclaredCountMismatch"
    ELSE NoiseCountFault

EndFaultLine ==
    CASE EndFault = "WrongValueCount" -> blockLine
      [] EndFault = "DeclaredCountMismatch" -> dataStartsAt
      [] EndFault = "DeclaredNoiseCountMismatch" -> noiseStartsAt
      [] EndFault = "KeywordNotPermitted" -> header.nnoiseAt

(* The slip of keeping the option line's R when [Reference] is there.        *)
PerPortFromOptionLine ==
    [port \in 1..n |-> Resistances[IF port > Len(Resistances) THEN 1 ELSE port]]

(* [Reference] supersedes the option line, whose one value serves all ports. *)
PerPort ==
    IF header.reference # <<>> THEN header.reference
    ELSE [port \in 1..n |-> Resistances[IF Len(Resistances) = 1 THEN 1 ELSE port]]

BroadcastReference == [i \in 1..(Len(freqHz) * n) |-> PerPort[((i - 1) % n) + 1]]

ReachEnd ==
    /\ \E section \in Sections : RunsOut(section)
    /\ \/ /\ EndFault # NoFault
          /\ Fail(EndFault, EndFaultLine)
       \/ /\ EndFault = NoFault
          /\ z0' = BroadcastReference
          /\ Answer("network", 0)
          /\ UNCHANGED <<input, headerVars, points, rows>>

Done == pc = "done" /\ UNCHANGED vars

Next ==
    \/ ReadHeader
    \/ FreezePlan
    \/ RejectPlan
    \/ TakeDataLine
    \/ PushToken
    \/ AddPoint
    \/ RejectToken
    \/ SkipSectionLine
    \/ BeginNoise
    \/ EndFile
    \/ RejectSectionKeyword
    \/ RejectContent
    \/ AddNoisePoint
    \/ RejectNoiseLine
    \/ ReachEnd
    \/ Done

(* The reader is one call that runs until it returns.                        *)
Spec == Init /\ [][Next]_vars /\ WF_vars(Next)
-----------------------------------------------------------------------------
Loops == {"header", "reference", "information", "plan", "network", "tokens",
          "noise", "ended", "done"}
AllPlaces == Nat \X Nat

(* The ParseErrorKinds this reader answers with; the two Faults stand for    *)
(* what OptionLine and KeywordLine tell apart.                               *)
Errors == {"OptionLineFault", "UnsupportedParameter", "MissingOptionLine",
           "DataBeforeOptionLine", "KeywordFault", "DuplicateKeyword", "MissingKeyword",
           "KeywordOutOfOrder", "KeywordNotPermitted", "InvalidKeywordArgument",
           "UnusablePortCount", "WrongResistanceCount", "MixedModeUnsupported",
           "PortCountMismatch", "DeclaredShapeExceedsFile", "InvalidNumber",
           "NonFiniteValue", "FrequencyNotAscending", "WrongValueCount",
           "NoiseRequiresTwoPorts", "MalformedNoiseLine", "NonFiniteNoiseValue",
           "NoiseFrequencyNotAscending", "DeclaredCountMismatch",
           "DeclaredNoiseCountMismatch", "TrailingDataAfterEnd"}
Counted == (Nat \ {0}) \cup {None}

Headers == [options : Nat, nports : Counted, nfreqs : Counted, nnoise : Counted,
            nnoiseAt : Nat, reference : Seq(AllPlaces),
            matrixFormat : MatrixFormats \cup {"none"},
            twoPortOrder : TwoPortOrders \cup {"none"},
            comments : Seq(Nat), seen : SUBSET Keywords]

(* Every variable stays in its type.                                         *)
TypeOK ==
    /\ file \in Seq(Lines)
    /\ hint \in Nat \cup {None}
    /\ fileValues \in Nat
    /\ pc \in Loops
    /\ pos \in 0..Len(file)
    /\ header \in Headers
    /\ list \in Seq(AllPlaces)
    /\ listCapacity \in Nat
    /\ openedAt \in 0..Len(file)
    /\ dataStartsAt \in 0..Len(file)
    /\ outcome \in [kind : {"reading", "network"} \cup Errors, line : Nat]
    /\ col \in Nat
    /\ block \in Seq(AllPlaces)
    /\ blockLine \in 0..Len(file)
    /\ freqHz \in Seq(Int)
    /\ s \in Seq(AllPlaces \X AllPlaces)
    /\ capacity \in [freqHz : Nat, s : Nat]
    /\ noiseStartsAt \in 0..Len(file)
    /\ noise \in Seq([hz : Int, line : Nat])
    /\ z0 \in Seq(AllPlaces)

(* Both sweeps are finite and strictly ascending at every moment             *)
(* (NetworkData::flush, NoisePoints::push_line).                             *)
SweepAscends ==
    /\ \A i \in 1..Len(freqHz) : Finite(freqHz[i])
    /\ \A i \in 1..Len(noise) : Finite(noise[i].hz)
    /\ \A i, j \in 1..Len(freqHz) : i < j => freqHz[i] < freqHz[j]
    /\ \A i, j \in 1..Len(noise) : i < j => noise[i].hz < noise[j].hz

(* Each point is a whole matrix, however many of its entries the file wrote: *)
(* none is left at the zero it was resized with, and a triangular file's     *)
(* matrix is symmetric (NetworkData::flush, entry_order, mirror).            *)
EveryEntryIsWritten ==
    freqHz # <<>> =>
        /\ Len(s) = Len(freqHz) * n * n
        /\ \A i \in 1..Len(s) : s[i] # Zero
        /\ ~Full => \A k \in 0..(Len(freqHz) - 1), row, column \in 1..n :
               s[k * n * n + (row - 1) * n + column]
                 = s[k * n * n + (column - 1) * n + row]

(* A point that opens in the middle of a line is blamed on that line, not on *)
(* the one the point before it opened on (block_line's doc comment).         *)
PointKnowsItsLine == block # <<>> => blockLine = block[1][1]

(* Nothing the header declares makes NetworkData reserve, or hold, more than *)
(* the file has room for: "a point needs more values than it yields matrix   *)
(* entries, in every matrix format" (NetworkData::new).                      *)
DataFitsTheFile ==
    /\ capacity.freqHz <= fileValues
    /\ capacity.s <= fileValues
    /\ Len(freqHz) <= fileValues
    /\ Len(s) <= fileValues

(* ADR 0008: "every declared count is bounded by the file itself before      *)
(* anything is sized from it" -- also the [Reference] list.                  *)
ListFitsTheFile == listCapacity <= fileValues

(* Every call returns.                                                       *)
EveryFileIsAnswered == <>(pc = "done")

Promise == INSTANCE SweepReader WITH
    Frequencies <- -MaxFinite..MaxFinite,
    PortCounts  <- Nat \ {0},
    Unknown     <- None,
    requested   <- hint,
    result      <- IF pc # "done" THEN "reading"
                   ELSE IF outcome.kind = "network" THEN "network" ELSE "error",
    ports       <- IF freqHz = <<>> THEN None ELSE header.nports,
    freqHz      <- freqHz,
    entries     <- Len(s),
    references  <- Len(z0),
    noiseHz     <- [i \in 1..Len(noise) |-> noise[i].hz]

(* The reader keeps the promise both readers make: points are only ever      *)
(* appended, whole and ascending, and the answer is given once.              *)
KeepsThePromise == Promise!Spec
=============================================================================
