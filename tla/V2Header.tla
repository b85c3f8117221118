------------------------------- MODULE V2Header -------------------------------
(***************************************************************************)
(* The keyword block of a Touchstone 2.x file: Header::read and apply with *)
(* the two blocks it steps through itself, [Reference] and [Begin          *)
(* Information] (parser/v2.rs).  V2Reader extends this module with what    *)
(* follows [Network Data].                                                 *)
(*                                                                         *)
(* One action takes one line.  A line carries what the reader's decisions  *)
(* depend on:                                                              *)
(*   kind   the keyword it holds, "broken" for a bracketed line that is    *)
(*          no keyword, or what else it is                                 *)
(*   arg    a keyword's word argument; an option line's value format, or   *)
(*          why parse_option_line refuses it                               *)
(*   count  a keyword's integer argument, 0 if positive_integer refuses it *)
(*   v      the numbers: of a data line, of [Reference], after an option   *)
(*          line's R, in Hz or ohms                                        *)
(* A number beyond MaxFinite is infinite or NaN, below -MaxFinite it is    *)
(* minus infinity; Unreadable is a token that parses as no number.         *)
(***************************************************************************)
EXTENDS DataShape, Sequences

CONSTANTS Files,       \* the files parse may dispatch to this reader
          Hints,       \* ParseOptions.nports: a port count, or None
          Slacks,      \* how far len / 2 + 1 may exceed the number of tokens
          MaxFinite,
          MaxDecibels  \* the largest a for which 10^(a/20) is finite

Unreadable == MaxFinite + 2

Keywords == {"Version", "NumberOfPorts", "TwoPortDataOrder", "NumberOfFrequencies",
             "NumberOfNoiseFrequencies", "Reference", "MatrixFormat",
             "MixedModeOrder", "BeginInformation", "EndInformation",
             "NetworkData", "NoiseData", "End"}
Bracketed == Keywords \cup {"broken"}
Empty == {"blank", "comment"}
Kinds == Bracketed \cup Empty \cup {"option", "data"}

TwoPortOrders == {"21_12", "12_21"}
MatrixFormats == {"Full", "Lower", "Upper"}
ValueFormats == {"ri", "db"}

(* A data line holds something: without a token it would be blank.           *)
Lines == {line \in [kind : Kinds, arg : STRING, count : Nat, v : Seq(Int)] :
            line.kind = "data" => line.v # <<>>}

ASSUME FilesAssumption == Files \subseteq Seq(Lines)
ASSUME HintsAssumption == Hints \subseteq Nat \cup {None}
ASSUME SlacksAssumption == Slacks \subseteq Nat
ASSUME MaxFiniteAssumption == MaxFinite \in Nat
ASSUME MaxDecibelsAssumption == MaxDecibels \in 0..MaxFinite

VARIABLES
    file,          \* the input: its logical lines
    hint,          \* the port count asserted by the caller or the extension
    fileValues,    \* input.len() / 2 + 1
    pc,            \* which loop of the reader has the next line
    pos,           \* lines taken so far
    header,        \* the Header struct; a line number stands for its line
    list,          \* read_reference's values while it is collecting them
    listCapacity,  \* what it reserved for them
    openedAt,      \* the line of the keyword whose block is being read
    dataStartsAt,  \* the line of [Network Data]
    outcome        \* the Result: [kind, line]; "reading" until there is one

input == <<file, hint, fileValues>>
headerVars == <<header, list, listCapacity, openedAt, dataStartsAt>>

TokensIn(f) ==
    LET upTo[i \in 0..Len(f)] == IF i = 0 THEN 0 ELSE upTo[i - 1] + Len(f[i].v)
    IN  upTo[Len(f)]

HeaderInit ==
    /\ file \in Files
    /\ hint \in Hints
    /\ \E slack \in Slacks : fileValues = TokensIn(file) + slack
    /\ pc = "header"
    /\ pos = 0
    /\ header = [options |-> 0, nports |-> None, nfreqs |-> None, nnoise |-> None,
                 nnoiseAt |-> 0, reference |-> <<>>, matrixFormat |-> "none",
                 twoPortOrder |-> "none", comments |-> <<>>, seen |-> {}]
    /\ list = <<>>
    /\ listCapacity = 0
    /\ openedAt = 0
    /\ dataStartsAt = 0
    /\ outcome = [kind |-> "reading", line |-> 0]
-----------------------------------------------------------------------------
Answer(kind, line) ==
    /\ outcome' = [kind |-> kind, line |-> line]
    /\ pc' = "done"

NoFault == "none"

Finite(x) == -MaxFinite <= x /\ x <= MaxFinite

Value(place) == file[place[1]].v[place[2]]

Places(line) == [col \in 1..Len(file[line].v) |-> <<line, col>>]

NextLine == pos + 1
Line == file[NextLine]

(* The next line of the file goes to this loop, and is of one of the kinds.  *)
Takes(loop, kinds) ==
    /\ pc = loop
    /\ pos < Len(file)
    /\ Line.kind \in kinds
    /\ pos' = NextLine

RunsOut(loop) == pc = loop /\ pos = Len(file) /\ UNCHANGED pos

(* An error abandons everything read so far.                                 *)
FailHeader(kind, line) ==
    /\ Answer(kind, line)
    /\ UNCHANGED <<input, headerVars>>
-----------------------------------------------------------------------------
(* Header::read: lines up to and including [Network Data].                   *)

(* The slip of a comment looked at and never consumed.                       *)
SkipHeaderLineInPlace ==
    /\ pc = "header" /\ pos < Len(file) /\ Line.kind \in Empty
    /\ UNCHANGED <<input, pc, pos, headerVars, outcome>>

SkipHeaderLine ==
    /\ Takes("header", Empty)
    /\ header' = IF Line.kind = "comment"
                 THEN [header EXCEPT !.comments = Append(@, NextLine)]
                 ELSE header
    /\ UNCHANGED <<input, pc, list, listCapacity, openedAt, dataStartsAt, outcome>>

TakeOptionLine ==
    /\ Takes("header", {"option"})
    /\ header.options = 0
    /\ Line.arg \in ValueFormats
    /\ header' = [header EXCEPT !.options = NextLine]
    /\ UNCHANGED <<input, pc, list, listCapacity, openedAt, dataStartsAt, outcome>>

RejectOptionLine ==
    /\ Takes("header", {"option"})
    /\ header.options = 0
    /\ Line.arg \notin ValueFormats
    /\ FailHeader(IF Line.arg = "unsupported" THEN "UnsupportedParameter"
                  ELSE "OptionLineFault", NextLine)

IgnoreOptionLine ==
    /\ Takes("header", {"option"})
    /\ header.options # 0
    /\ UNCHANGED <<input, pc, headerVars, outcome>>

(* Numbers before [Network Data], outside a [Reference] list.                *)
RejectEarlyData ==
    /\ Takes("header", {"data"})
    /\ FailHeader(IF header.options = 0 THEN "DataBeforeOptionLine"
                  ELSE "MissingKeyword", NextLine)
-----------------------------------------------------------------------------
(* Header::apply.                                                            *)

Counts == {"NumberOfFrequencies", "NumberOfNoiseFrequencies"}

NeedsPorts == {"Reference", "TwoPortDataOrder", "MixedModeOrder"}

(* The slip of letting a second occurrence overwrite the first.              *)
ClaimFaultOnOrderAlone(w) ==
    IF w \in NeedsPorts /\ header.nports = None
    THEN "KeywordOutOfOrder"
    ELSE NoFault

ClaimFault(w) ==
    IF w \in header.seen
    THEN "DuplicateKeyword"
    ELSE IF w \in NeedsPorts /\ header.nports = None
    THEN "KeywordOutOfOrder"
    ELSE NoFault

PortsFault ==
    IF header.options = 0 THEN "KeywordOutOfOrder"
    ELSE IF Line.count = 0 THEN "InvalidKeywordArgument"
    ELSE IF ValuesPerPoint(Line.count) = None THEN "UnusablePortCount"
    ELSE NoFault

TwoPortOrderFault ==
    IF header.nports # 2 THEN "KeywordNotPermitted"
    ELSE IF Line.arg \notin TwoPortOrders THEN "InvalidKeywordArgument"
    ELSE NoFault

(* read_reference's push_all: the first token that is not a usable number of *)
(* ohms stops it.                                                            *)
IsOhms(x) == 0 < x /\ Finite(x)
ListFault ==
    LET bad == {col \in 1..Len(Line.v) : ~IsOhms(Line.v[col])}
        first == CHOOSE col \in bad : \A other \in bad : col <= other
    IN  IF bad = {} THEN NoFault
        ELSE IF Line.v[first] = Unreadable THEN "InvalidNumber"
        ELSE "InvalidKeywordArgument"

ArgumentFault(w) ==
    CASE w = "NumberOfPorts" -> PortsFault
      [] w \in Counts /\ Line.count = 0 -> "InvalidKeywordArgument"
      [] w = "TwoPortDataOrder" -> TwoPortOrderFault
      [] w = "MatrixFormat" /\ Line.arg \notin MatrixFormats -> "InvalidKeywordArgument"
      [] w = "Reference" ->
            IF ListFault = NoFault /\ Len(Line.v) > header.nports
            THEN "WrongResistanceCount"
            ELSE ListFault
      [] w = "MixedModeOrder" -> "MixedModeUnsupported"
      [] w \in {"EndInformation", "NoiseData", "End"} -> "KeywordOutOfOrder"
      [] OTHER -> NoFault

VersionFault ==
    IF header.options # 0 \/ header.seen # {} THEN "KeywordOutOfOrder" ELSE NoFault

KeywordFault(w) ==
    CASE w = "broken" -> "KeywordFault"
      [] w = "Version" -> VersionFault
      [] OTHER -> IF ClaimFault(w) # NoFault THEN ClaimFault(w) ELSE ArgumentFault(w)

RejectKeyword ==
    /\ Takes("header", Bracketed)
    /\ KeywordFault(Line.kind) # NoFault
    /\ FailHeader(KeywordFault(Line.kind), NextLine)

TakesKeyword(words) ==
    /\ Takes("header", words)
    /\ KeywordFault(Line.kind) = NoFault

(* The header with the keyword claimed and its argument kept.                *)
Claimed == [header EXCEPT !.seen = @ \cup {Line.kind}]
Applied(w) ==
    CASE w = "NumberOfPorts" -> [Claimed EXCEPT !.nports = Line.count]
      [] w = "NumberOfFrequencies" -> [Claimed EXCEPT !.nfreqs = Line.count]
      [] w = "NumberOfNoiseFrequencies" ->
            [Claimed EXCEPT !.nnoise = Line.count, !.nnoiseAt = NextLine]
      [] w = "TwoPortDataOrder" -> [Claimed EXCEPT !.twoPortOrder = Line.arg]
      [] w = "MatrixFormat" -> [Claimed EXCEPT !.matrixFormat = Line.arg]
      [] w = "Version" -> Claimed

ApplyKeyword ==
    /\ TakesKeyword({"Version", "NumberOfPorts", "TwoPortDataOrder", "MatrixFormat"}
                    \cup Counts)
    /\ header' = Applied(Line.kind)
    /\ UNCHANGED <<input, pc, list, listCapacity, openedAt, dataStartsAt, outcome>>

TakeNetworkData ==
    /\ TakesKeyword({"NetworkData"})
    /\ header' = Claimed
    /\ dataStartsAt' = NextLine
    /\ pc' = "plan"
    /\ UNCHANGED <<input, list, listCapacity, openedAt, outcome>>

MissNetworkData ==
    /\ RunsOut("header")
    /\ FailHeader("MissingKeyword", 1)
-----------------------------------------------------------------------------
(* read_reference: the list may go on over any number of lines and ends when *)
(* it names every port.                                                      *)

ListIsFull(values, nports) == Len(values) >= nports

BeginReference ==
    /\ TakesKeyword({"Reference"})
    /\ listCapacity' = header.nports
    /\ list' = Places(NextLine)
    /\ openedAt' = NextLine
    /\ IF ListIsFull(list', header.nports)
       THEN header' = [Claimed EXCEPT !.reference = list'] /\ pc' = "header"
       ELSE header' = Claimed /\ pc' = "reference"
    /\ UNCHANGED <<input, dataStartsAt, outcome>>

SkipReferenceLine ==
    /\ Takes("reference", Empty)
    /\ UNCHANGED <<input, pc, headerVars, outcome>>

ExtendReference ==
    /\ Takes("reference", {"data"})
    /\ ListFault = NoFault
    /\ Len(list) + Len(Line.v) <= header.nports
    /\ list' = list \o Places(NextLine)
    /\ IF ListIsFull(list', header.nports)
       THEN header' = [header EXCEPT !.reference = list'] /\ pc' = "header"
       ELSE UNCHANGED <<header, pc>>
    /\ UNCHANGED <<input, listCapacity, openedAt, dataStartsAt, outcome>>

(* An unusable value, one too many, or a keyword or the end of the file with *)
(* the list still short.  A `#' is not skipped here: it is read as a number. *)
RejectReference ==
    \/ /\ Takes("reference", {"data"})
       /\ ListFault # NoFault
       /\ FailHeader(ListFault, NextLine)
    \/ /\ Takes("reference", {"data"})
       /\ ListFault = NoFault
       /\ Len(list) + Len(Line.v) > header.nports
       /\ FailHeader("WrongResistanceCount", openedAt)
    \/ /\ Takes("reference", {"option"})
       /\ FailHeader("InvalidNumber", NextLine)
    \/ /\ Takes("reference", Bracketed) \/ RunsOut("reference")
       /\ FailHeader("WrongResistanceCount", openedAt)
-----------------------------------------------------------------------------
(* skip_information_block.                                                   *)

BeginInformation ==
    /\ TakesKeyword({"BeginInformation"})
    /\ header' = Claimed
    /\ openedAt' = NextLine
    /\ pc' = "information"
    /\ UNCHANGED <<input, list, listCapacity, dataStartsAt, outcome>>

SkipInformationLine ==
    /\ Takes("information", Kinds \ Bracketed)
    /\ UNCHANGED <<input, pc, headerVars, outcome>>

EndInformation ==
    /\ Takes("information", {"EndInformation"})
    /\ pc' = "header"
    /\ UNCHANGED <<input, headerVars, outcome>>

RejectInformation ==
    \/ /\ Takes("information", Bracketed \ {"EndInformation"})
       /\ FailHeader(IF Line.kind = "broken" THEN "KeywordFault"
                     ELSE "KeywordOutOfOrder", NextLine)
    \/ /\ RunsOut("information")
       /\ FailHeader("MissingKeyword", openedAt)
-----------------------------------------------------------------------------
HeaderNext ==
    \/ SkipHeaderLine
    \/ TakeOptionLine
    \/ RejectOptionLine
    \/ IgnoreOptionLine
    \/ RejectEarlyData
    \/ RejectKeyword
    \/ ApplyKeyword
    \/ TakeNetworkData
    \/ MissNetworkData
    \/ BeginReference
    \/ SkipReferenceLine
    \/ ExtendReference
    \/ RejectReference
    \/ BeginInformation
    \/ SkipInformationLine
    \/ EndInformation
    \/ RejectInformation
=============================================================================
