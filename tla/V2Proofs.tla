------------------------------- MODULE V2Proofs -------------------------------
(***************************************************************************)
(* Theorems about V2Reader, for every file, every hint, every slack, every *)
(* MaxUsize and every MaxFinite.                                           *)
(***************************************************************************)
EXTENDS V2Reader, CountingLemmas

HeaderLoops == {"header", "reference", "information", "plan"}
Rows == [hz : Int, line : Nat]

(* A token of the file.                                                      *)
InFile(place) ==
    /\ place[1] \in 1..Len(file)
    /\ place[2] \in 1..Len(file[place[1]].v)

IsSequence(x) == x \in Seq({x[i] : i \in 1..Len(x)})

(* The types the scan rests on.                                              *)
ScanTypes ==
    /\ file \in Seq(Lines)
    /\ hint \in Nat \cup {None}
    /\ pc \in HeaderLoops \cup Sections \cup {"tokens", "done"}
    /\ pos \in 0..Len(file)
    /\ header \in Headers
    /\ list \in Seq(AllPlaces)
    /\ col \in Nat
    /\ block \in Seq(AllPlaces)
    /\ freqHz \in Seq(Int)
    /\ noise \in Seq(Rows)
    /\ IsSequence(s)

(* The counts Header::finish has found, and found to agree with the caller.  *)
Frozen ==
    /\ header.nports \in Nat \ {0}
    /\ header.nfreqs \in Nat \ {0}
    /\ hint \in {None, header.nports}

(* Where the scan is decides what it holds.                                  *)
ControlInv ==
    /\ pc \in HeaderLoops => freqHz = <<>> /\ s = <<>> /\ noise = <<>> /\ block = <<>>
    /\ pc \in Sections \cup {"tokens"} => Frozen
    /\ pc \in {"network", "tokens"} => noise = <<>>
    /\ pc = "noise" => header.nports = 2
    /\ pc = "tokens" => pos \in 1..Len(file) /\ col < Len(file[pos].v)

(* A point opens with a token of the file, on the line it is blamed on.      *)
BlockInv == block # <<>> => InFile(block[1]) /\ blockLine = block[1][1]

(* n^2 entries for each point, and none without a port count.                *)
ShapeInv ==
    /\ freqHz = <<>> => s = <<>>
    /\ freqHz # <<>> => /\ header.nports \in Nat \ {0}
                       /\ Len(s) = Len(freqHz) * (header.nports * header.nports)

IInv ==
    /\ ScanTypes
    /\ ControlInv
    /\ BlockInv
    /\ ShapeInv
    /\ SweepAscends
-----------------------------------------------------------------------------
(* Every file starts in a state of the invariant.                            *)
THEOREM InitEstablishes == Init => IInv
<1>. SUFFICES ASSUME Init PROVE IInv
  OBVIOUS
<1>1. file \in Seq(Lines) /\ hint \in Nat \cup {None} /\ Len(file) \in Nat
  BY FilesAssumption, HintsAssumption DEF Init, HeaderInit
<1>2. header \in Headers
  BY DEF Init, HeaderInit, Headers, Counted, None
<1>3. IsSequence(s)
  BY DEF Init, IsSequence
<1>4. ScanTypes
  BY <1>1, <1>2, <1>3 DEF Init, HeaderInit, ScanTypes, HeaderLoops
<1>5. ControlInv /\ BlockInv /\ ShapeInv /\ SweepAscends
  BY DEF Init, HeaderInit, ControlInv, BlockInv, ShapeInv, SweepAscends, HeaderLoops, Sections
<1>. QED
  BY <1>4, <1>5 DEF IInv

(* The next line of the file.                                                *)
LEMMA LineIsTyped ==
    ASSUME ScanTypes, pos < Len(file)
    PROVE  /\ Line \in Lines
           /\ Line.v \in Seq(Int) /\ Len(Line.v) \in Nat
           /\ Line.kind \in Kinds /\ Line.count \in Nat
           /\ Line.kind = "data" => Len(Line.v) > 0
           /\ NextLine \in 1..Len(file)
<1>1. Len(file) \in Nat /\ pos + 1 \in 1..Len(file)
  BY DEF ScanTypes
<1>2. Line \in Lines
  BY <1>1 DEF ScanTypes, Line, NextLine
<1>3. Line.v \in Seq(Int) /\ (Line.kind = "data" => Line.v # <<>>)
  BY <1>2 DEF Lines
<1>4. Line.kind = "data" => Len(Line.v) > 0
  BY <1>3
<1>. QED
  BY <1>1, <1>2, <1>3, <1>4 DEF Lines, NextLine

(* The places of a line's tokens.                                            *)
LEMMA PlacesAreTyped ==
    ASSUME ScanTypes, pos < Len(file)
    PROVE  Places(NextLine) \in Seq(AllPlaces)
<1>1. Len(Line.v) \in Nat /\ NextLine \in Nat
  BY LineIsTyped DEF ScanTypes
<1>. QED
  BY <1>1 DEF Places, AllPlaces, Line
-----------------------------------------------------------------------------
(* What a step of the header loops leaves behind.                            *)
HeaderOutcome ==
    /\ pc \in HeaderLoops \ {"plan"}
    /\ pc' \in HeaderLoops \cup {"done"}
    /\ pc' = "done" => outcome'.kind # "network"
    /\ pos' \in 0..Len(file)
    /\ header' \in Headers
    /\ list' \in Seq(AllPlaces)
    /\ UNCHANGED input

(* An error in the header.                                                   *)
LEMMA HeaderFails ==
    ASSUME ScanTypes, pc \in HeaderLoops \ {"plan"}, pos' \in 0..Len(file),
           NEW kind, NEW at, kind # "network", FailHeader(kind, at)
    PROVE  HeaderOutcome
  BY DEF FailHeader, Answer, HeaderOutcome, ScanTypes, headerVars, input, HeaderLoops

(* Taking a line, or finding none, keeps the place in the file.              *)
LEMMA TakingMoves ==
    ASSUME ScanTypes, NEW loop, NEW kinds, Takes(loop, kinds) \/ RunsOut(loop)
    PROVE  /\ pc = loop /\ pos' \in 0..Len(file)
           /\ Takes(loop, kinds) => pos < Len(file) /\ Line.kind \in kinds /\ pos' = NextLine
<1>1. Len(file) \in Nat
  BY DEF ScanTypes
<1>. QED
  BY <1>1 DEF Takes, RunsOut, NextLine, ScanTypes

(* The claimed header, with any keyword's argument.                          *)
LEMMA AppliedIsTyped ==
    ASSUME ScanTypes, pos < Len(file), Line.kind \in Keywords,
           KeywordFault(Line.kind) = NoFault
    PROVE  /\ Claimed \in Headers
           /\ Line.kind \in {"Version", "NumberOfPorts", "TwoPortDataOrder", "MatrixFormat"}
                            \cup Counts
              => Applied(Line.kind) \in Headers
<1>1. header \in Headers /\ Line.count \in Nat /\ NextLine \in Nat
  BY LineIsTyped DEF ScanTypes
<1>2. Claimed \in Headers /\ Claimed.seen \subseteq Keywords
  BY <1>1 DEF Claimed, Headers
<1>3. Line.kind # "broken"
  BY DEF Keywords
<1>4. Line.kind # "Version" => ArgumentFault(Line.kind) = NoFault
  BY <1>3 DEF KeywordFault
<1>5. CASE Line.kind = "NumberOfPorts"
  <2>1. Line.count \in Counted
    BY <1>1, <1>4, <1>5 DEF ArgumentFault, PortsFault, NoFault, Counted
  <2>. QED
    BY <1>2, <1>5, <2>1 DEF Applied, Headers
<1>6. CASE Line.kind \in Counts
  <2>1. Line.count \in Counted
    BY <1>1, <1>4, <1>6 DEF ArgumentFault, NoFault, Counted, Counts
  <2>. QED
    BY <1>1, <1>2, <1>6, <2>1 DEF Applied, Headers, Counts
<1>7. CASE Line.kind = "TwoPortDataOrder"
  <2>1. Line.arg \in TwoPortOrders
    BY <1>4, <1>7 DEF ArgumentFault, TwoPortOrderFault, NoFault, Counts
  <2>. QED
    BY <1>2, <1>7, <2>1 DEF Applied, Headers
<1>8. CASE Line.kind = "MatrixFormat"
  <2>1. Line.arg \in MatrixFormats
    BY <1>4, <1>8 DEF ArgumentFault, NoFault, Counts
  <2>. QED
    BY <1>2, <1>8, <2>1 DEF Applied, Headers
<1>9. CASE Line.kind = "Version"
  BY <1>2, <1>9 DEF Applied
<1>. QED
  BY <1>2, <1>5, <1>6, <1>7, <1>8, <1>9

(* Every action of the header loops.                                         *)
LEMMA HeaderSteps ==
    ASSUME ScanTypes, HeaderNext
    PROVE  HeaderOutcome
<1>1. CASE SkipHeaderLine
  <2>1. pc = "header" /\ pos < Len(file) /\ pos' \in 0..Len(file)
    BY <1>1, TakingMoves DEF SkipHeaderLine
  <2>2. header \in Headers /\ NextLine \in Nat
    BY <2>1, LineIsTyped DEF ScanTypes
  <2>3. Append(header.comments, NextLine) \in Seq(Nat)
    BY <2>2 DEF Headers
  <2>4. ASSUME NEW comments \in Seq(Nat)
        PROVE  [header EXCEPT !.comments = comments] \in Headers
    BY <2>2 DEF Headers
  <2>5. [header EXCEPT !.comments = Append(header.comments, NextLine)] \in Headers
    BY <2>3, <2>4
  <2>6. header' \in Headers
    <3>1. CASE Line.kind = "comment"
      <4>1. header' = [header EXCEPT !.comments = Append(@, NextLine)]
        BY <1>1, <3>1 DEF SkipHeaderLine
      <4>. QED
        BY <2>5, <4>1
    <3>2. CASE Line.kind # "comment"
      BY <1>1, <2>2, <3>2 DEF SkipHeaderLine
    <3>. QED
      BY <3>1, <3>2
  <2>. QED
    BY <1>1, <2>1, <2>6 DEF SkipHeaderLine, HeaderOutcome, ScanTypes, HeaderLoops, input
<1>2. CASE TakeOptionLine
  <2>1. pc = "header" /\ pos < Len(file) /\ pos' \in 0..Len(file)
    BY <1>2, TakingMoves DEF TakeOptionLine
  <2>2. NextLine \in Nat /\ header \in Headers
    BY <2>1, LineIsTyped DEF ScanTypes
  <2>3. header' = [header EXCEPT !.options = NextLine]
    BY <1>2 DEF TakeOptionLine
  <2>4. header' \in Headers
    BY <2>2, <2>3 DEF Headers
  <2>. QED
    BY <1>2, <2>1, <2>4 DEF TakeOptionLine, HeaderOutcome, ScanTypes, HeaderLoops, input
<1>3. CASE RejectOptionLine
  <2>1. pc = "header" /\ pos' \in 0..Len(file)
    BY <1>3, TakingMoves DEF RejectOptionLine
  <2>. QED
    BY <1>3, <2>1, HeaderFails DEF RejectOptionLine, HeaderLoops
<1>4. CASE IgnoreOptionLine \/ SkipReferenceLine \/ SkipInformationLine \/ EndInformation
  <2>1. pc \in HeaderLoops \ {"plan"} /\ pos' \in 0..Len(file)
    BY <1>4, TakingMoves
       DEF IgnoreOptionLine, SkipReferenceLine, SkipInformationLine, EndInformation, HeaderLoops
  <2>. QED
    BY <1>4, <2>1
       DEF IgnoreOptionLine, SkipReferenceLine, SkipInformationLine, EndInformation,
           HeaderOutcome, ScanTypes, HeaderLoops, input, headerVars
<1>5. CASE RejectEarlyData
  <2>1. pc = "header" /\ pos' \in 0..Len(file)
    BY <1>5, TakingMoves DEF RejectEarlyData
  <2>. QED
    BY <1>5, <2>1, HeaderFails DEF RejectEarlyData, HeaderLoops
<1>6. CASE RejectKeyword
  <2>1. pc = "header" /\ pos' \in 0..Len(file)
    BY <1>6, TakingMoves DEF RejectKeyword
  <2>2. ListFault # "network" /\ PortsFault # "network" /\ TwoPortOrderFault # "network"
    BY DEF ListFault, PortsFault, TwoPortOrderFault, NoFault
  <2>3. ArgumentFault(Line.kind) # "network"
    BY <2>2 DEF ArgumentFault, NoFault
  <2>4. KeywordFault(Line.kind) # "network"
    BY <2>3 DEF KeywordFault, ClaimFault, VersionFault, NoFault
  <2>. QED
    BY <1>6, <2>1, <2>4, HeaderFails DEF RejectKeyword, HeaderLoops
<1>7. CASE ApplyKeyword \/ TakeNetworkData \/ BeginInformation
  <2>1. /\ pc = "header" /\ pos < Len(file) /\ pos' \in 0..Len(file)
        /\ Line.kind \in Keywords /\ KeywordFault(Line.kind) = NoFault
    BY <1>7, TakingMoves
       DEF ApplyKeyword, TakeNetworkData, BeginInformation, TakesKeyword, Keywords, Counts
  <2>2. ApplyKeyword => Line.kind \in {"Version", "NumberOfPorts", "TwoPortDataOrder",
                                       "MatrixFormat"} \cup Counts
    BY TakingMoves DEF ApplyKeyword, TakesKeyword
  <2>3. header' \in Headers
    BY <1>7, <2>1, <2>2, AppliedIsTyped DEF ApplyKeyword, TakeNetworkData, BeginInformation
  <2>. QED
    BY <1>7, <2>1, <2>3
       DEF ApplyKeyword, TakeNetworkData, BeginInformation, HeaderOutcome, ScanTypes,
           HeaderLoops, input
<1>8. CASE MissNetworkData
  <2>1. pc = "header" /\ pos' \in 0..Len(file)
    BY <1>8, TakingMoves DEF MissNetworkData
  <2>. QED
    BY <1>8, <2>1, HeaderFails DEF MissNetworkData, HeaderLoops
<1>9. CASE BeginReference
  <2>1. /\ pc = "header" /\ pos < Len(file) /\ pos' \in 0..Len(file)
        /\ Line.kind \in Keywords /\ KeywordFault(Line.kind) = NoFault
    BY <1>9, TakingMoves DEF BeginReference, TakesKeyword, Keywords
  <2>2. Claimed \in Headers /\ list' \in Seq(AllPlaces)
    BY <1>9, <2>1, AppliedIsTyped, PlacesAreTyped DEF BeginReference
  <2>3. header' \in Headers /\ pc' \in HeaderLoops
    BY <1>9, <2>2 DEF BeginReference, Headers, HeaderLoops
  <2>. QED
    BY <1>9, <2>1, <2>2, <2>3 DEF BeginReference, HeaderOutcome, HeaderLoops, input
<1>10. CASE ExtendReference
  <2>1. pc = "reference" /\ pos < Len(file) /\ pos' \in 0..Len(file)
    BY <1>10, TakingMoves DEF ExtendReference
  <2>2. list' \in Seq(AllPlaces)
    BY <1>10, <2>1, PlacesAreTyped, ConcatProperties DEF ExtendReference, ScanTypes
  <2>3. header' \in Headers /\ pc' \in HeaderLoops
    BY <1>10, <2>1, <2>2 DEF ExtendReference, ScanTypes, Headers, HeaderLoops
  <2>. QED
    BY <1>10, <2>1, <2>2, <2>3 DEF ExtendReference, HeaderOutcome, HeaderLoops, input
<1>11. CASE RejectReference
  <2>1. pc = "reference" /\ pos' \in 0..Len(file)
    BY <1>11, TakingMoves DEF RejectReference
  <2>2. ListFault # "network"
    BY DEF ListFault, NoFault
  <2>. QED
    BY <1>11, <2>1, <2>2, HeaderFails DEF RejectReference, HeaderLoops
<1>12. CASE RejectInformation
  <2>1. pc = "information" /\ pos' \in 0..Len(file)
    BY <1>12, TakingMoves DEF RejectInformation
  <2>. QED
    BY <1>12, <2>1, HeaderFails DEF RejectInformation, HeaderLoops
<1>. QED
  BY <1>1, <1>2, <1>3, <1>4, <1>5, <1>6, <1>7, <1>8, <1>9, <1>10, <1>11, <1>12 DEF HeaderNext

(* The header loops touch none of the data.                                  *)
LEMMA ReadHeaderPreserves ==
    ASSUME IInv, ReadHeader
    PROVE  IInv'
<1>1. HeaderOutcome /\ UNCHANGED dataVars
  BY HeaderSteps DEF IInv, ReadHeader
<1>2. freqHz' = <<>> /\ s' = <<>> /\ noise' = <<>> /\ block' = <<>>
  BY <1>1 DEF HeaderOutcome, IInv, ControlInv, dataVars, points, rows
<1>3. ScanTypes'
  BY <1>1, <1>2 DEF HeaderOutcome, IInv, ScanTypes, dataVars, points, input, IsSequence
<1>4. ControlInv' /\ BlockInv' /\ ShapeInv' /\ SweepAscends'
  BY <1>1, <1>2
     DEF HeaderOutcome, ControlInv, BlockInv, ShapeInv, SweepAscends, HeaderLoops, Sections
<1>. QED
  BY <1>3, <1>4 DEF IInv
-----------------------------------------------------------------------------
(* What no action but those that touch the data can disturb.                 *)
LEMMA DataUntouched ==
    ASSUME IInv, UNCHANGED <<input, header, block, blockLine, freqHz, s, noise>>
    PROVE  BlockInv' /\ ShapeInv' /\ SweepAscends'
  BY DEF IInv, input, BlockInv, InFile, ShapeInv, SweepAscends, Finite

(* The scan may move as long as what it holds stays.                         *)
LEMMA ScanUntouched ==
    ASSUME IInv, pc' \in HeaderLoops \cup Sections \cup {"tokens", "done"},
           pos' \in 0..Len(file), col' \in Nat,
           UNCHANGED <<input, header, list, block, freqHz, s, noise>>
    PROVE  ScanTypes'
  BY DEF IInv, ScanTypes, input, IsSequence

(* Behind the header, the header and what it was checked against stay.       *)
LEMMA SectionsKeepControl ==
    ASSUME IInv, pc \in Sections \cup {"tokens"}, pc' \in Sections \cup {"done"},
           UNCHANGED <<input, header>>,
           pc' = "network" => UNCHANGED noise /\ pc \in {"network", "tokens"},
           pc' = "noise" => header.nports = 2
    PROVE  ControlInv'
  BY DEF IInv, ControlInv, Frozen, input, HeaderLoops, Sections

(* An error answer is a state of the invariant whatever the error is.        *)
LEMMA FailPreserves ==
    ASSUME IInv, NEW kind, NEW line, Fail(kind, line), pos' \in 0..Len(file)
    PROVE  IInv'
<1>1. pc' = "done" /\ UNCHANGED <<input, headerVars, dataVars>>
  BY DEF Fail, FailHeader, Answer
<1>2. ControlInv'
  BY <1>1 DEF ControlInv, HeaderLoops, Sections
<1>3. ScanTypes'
  BY <1>1, ScanUntouched DEF IInv, ScanTypes, headerVars, dataVars, points, rows
<1>. QED
  BY <1>1, <1>2, <1>3, DataUntouched DEF IInv, headerVars, dataVars, points, rows

(* The next line of a section, or none.                                      *)
LEMMA SectionMoves ==
    ASSUME IInv, NEW kinds, \E section \in Sections : Takes(section, kinds) \/ RunsOut(section)
    PROVE  /\ pc \in Sections /\ pos' \in 0..Len(file)
           /\ (\E section \in Sections : Takes(section, kinds))
              => pos < Len(file) /\ Line.kind \in kinds /\ pos' = NextLine
<1>1. PICK section \in Sections : Takes(section, kinds) \/ RunsOut(section)
  OBVIOUS
<1>2. Len(file) \in Nat /\ pos \in 0..Len(file)
  BY DEF IInv, ScanTypes
<1>. QED
  BY <1>1, <1>2 DEF Takes, RunsOut, NextLine, Sections
-----------------------------------------------------------------------------
(* What the header has passed when [Network Data] is reached.                *)
LEMMA PlanPasses ==
    ASSUME IInv, PlanFault = NoFault
    PROVE  Frozen
<1>1. header.nports \in Counted /\ header.nfreqs \in Counted
  BY DEF IInv, ScanTypes, Headers
<1>2. header.options # 0
  BY DEF PlanFault, NoFault
<1>3. None \notin {header.nports, header.nfreqs}
  BY <1>2 DEF PlanFault, NoFault
<1>4. hint \in {None, n}
  BY <1>2, <1>3 DEF PlanFault, NoFault
<1>. QED
  BY <1>1, <1>3, <1>4 DEF Frozen, Counted, n

(* Header::finish, whether it agrees or not.                                 *)
LEMMA PlanPreserves ==
    ASSUME IInv, FreezePlan \/ RejectPlan
    PROVE  IInv'
<1>1. pc = "plan" /\ pos' = pos /\ pos \in 0..Len(file)
  BY DEF FreezePlan, RejectPlan, IInv, ScanTypes
<1>2. CASE FreezePlan
  <2>1. /\ pc' = "network" /\ UNCHANGED <<input, pos, headerVars>>
        /\ UNCHANGED <<col, block, blockLine, freqHz, s, noise>>
    BY <1>2 DEF FreezePlan, rows, points
  <2>2. Frozen /\ noise = <<>>
    BY <1>1, <1>2, PlanPasses DEF FreezePlan, IInv, ControlInv, HeaderLoops
  <2>3. ControlInv'
    BY <2>1, <2>2 DEF ControlInv, Frozen, HeaderLoops, Sections, input, headerVars
  <2>4. ScanTypes'
    BY <1>1, <2>1, ScanUntouched DEF IInv, ScanTypes, headerVars, Sections
  <2>. QED
    BY <2>1, <2>3, <2>4, DataUntouched DEF IInv, headerVars
<1>3. CASE RejectPlan
  BY <1>1, <1>3, FailPreserves DEF RejectPlan
<1>. QED
  BY <1>2, <1>3

(* A data line has a first token to take.                                    *)
LEMMA TakeDataLinePreserves ==
    ASSUME IInv, TakeDataLine
    PROVE  IInv'
<1>1. /\ pc = "network" /\ pos < Len(file) /\ Line.kind = "data" /\ pos' = NextLine
      /\ pc' = "tokens" /\ col' = 0
      /\ UNCHANGED <<input, headerVars, block, blockLine, freqHz, s, noise>>
  BY DEF TakeDataLine, Takes, rows
<1>2. NextLine \in 1..Len(file) /\ Len(Line.v) > 0 /\ Len(file) \in Nat
  BY <1>1, LineIsTyped DEF IInv, ScanTypes
<1>3. ScanTypes'
  BY <1>1, <1>2, ScanUntouched DEF headerVars
<1>4. pos' \in 1..Len(file') /\ col' < Len(file'[pos'].v)
  BY <1>1, <1>2 DEF Line, input
<1>5. Frozen' /\ noise' = <<>>
  BY <1>1 DEF IInv, ControlInv, Frozen, Sections, input, headerVars
<1>6. ControlInv'
  BY <1>1, <1>4, <1>5 DEF ControlInv, HeaderLoops, Sections
<1>. QED
  BY <1>1, <1>3, <1>6, DataUntouched DEF IInv, headerVars
-----------------------------------------------------------------------------
(* The token push_line takes next, and the point it extends.                 *)
LEMMA TokenExtends ==
    ASSUME IInv, pc = "tokens"
    PROVE  /\ Extended \in Seq(AllPlaces) /\ Extended # <<>>
           /\ InFile(Extended[1]) /\ OpenedOn = Extended[1][1]
           /\ Value(Extended[1]) \in Int
<1>1. pos \in 1..Len(file) /\ col + 1 \in 1..Len(file[pos].v) /\ file \in Seq(Lines)
  <2>1. pos \in 1..Len(file) /\ col < Len(file[pos].v) /\ col \in Nat /\ file \in Seq(Lines)
    BY DEF IInv, ControlInv, ScanTypes
  <2>2. file[pos] \in Lines
    BY <2>1, ElementOfSeq
  <2>3. Len(file[pos].v) \in Nat
    BY <2>2 DEF Lines
  <2>. QED
    BY <2>1, <2>3
<1>2. /\ InFile(Token) /\ Token[1] = pos /\ Token \in AllPlaces
  BY <1>1 DEF Token, InFile, AllPlaces, IInv, ScanTypes
<1>3. /\ Extended \in Seq(AllPlaces) /\ Len(Extended) = Len(block) + 1
      /\ block = <<>> => Extended[1] = Token
      /\ block # <<>> => Extended[1] = block[1]
  <2>1. block \in Seq(AllPlaces) /\ Len(block) \in Nat
    BY DEF IInv, ScanTypes
  <2>2. block # <<>> => 1 \in 1..Len(block)
    BY <2>1, EmptySeq
  <2>3. block = <<>> => Len(block) = 0
    OBVIOUS
  <2>. QED
    BY <1>2, <2>1, <2>2, <2>3, AppendProperties DEF Extended
<1>4. Extended # <<>>
  BY <1>3 DEF IInv, ScanTypes
<1>5. InFile(Extended[1]) /\ OpenedOn = Extended[1][1]
  BY <1>2, <1>3 DEF IInv, BlockInv, OpenedOn
<1>6. Value(Extended[1]) \in Int
  <2>1. PICK place : place = Extended[1]
    OBVIOUS
  <2>2. place[1] \in 1..Len(file) /\ place[2] \in 1..Len(file[place[1]].v)
    BY <1>5, <2>1 DEF InFile
  <2>3. file[place[1]] \in Lines
    BY <1>1, <2>2, ElementOfSeq
  <2>4. file[place[1]].v \in Seq(Int)
    BY <2>3 DEF Lines
  <2>5. Value(place) \in Int
    BY <2>2, <2>4, ElementOfSeq DEF Value
  <2>. QED
    BY <2>1, <2>5
<1>. QED
  BY <1>3, <1>4, <1>5, <1>6

(* Going on to the next token, or off the line's end.                        *)
LEMMA AdvanceKeepsControl ==
    ASSUME IInv, pc = "tokens", Advance
    PROVE  /\ ControlInv' /\ pc' \in {"network", "tokens"}
           /\ pos' \in 0..Len(file) /\ col' \in Nat
           /\ blockLine' = OpenedOn
           /\ UNCHANGED <<input, header, list, noise, hint, z0>>
<1>1. /\ pos \in 1..Len(file) /\ pos \in 0..Len(file) /\ col < Len(file[pos].v) /\ col \in Nat
      /\ file \in Seq(Lines) /\ Frozen /\ noise = <<>>
  BY DEF IInv, ControlInv, ScanTypes, Sections
<1>2. Len(file[pos].v) \in Nat
  <2>1. file[pos] \in Lines
    BY <1>1, ElementOfSeq
  <2>. QED
    BY <2>1 DEF Lines
<1>3. /\ col' = col + 1 /\ pos' = pos /\ blockLine' = OpenedOn
      /\ pc' = IF col + 1 = Len(file[pos].v) THEN "network" ELSE "tokens"
      /\ UNCHANGED <<input, header, list, noise, hint, z0, file>>
  BY DEF Advance, headerVars, rows, input
<1>4. pc' = "tokens" => pos' \in 1..Len(file') /\ col' < Len(file'[pos'].v)
  BY <1>1, <1>2, <1>3
<1>5. Frozen' /\ noise' = <<>>
  BY <1>1, <1>3 DEF Frozen
<1>6. ControlInv'
  BY <1>3, <1>4, <1>5 DEF ControlInv, HeaderLoops, Sections
<1>. QED
  BY <1>1, <1>3, <1>6
-----------------------------------------------------------------------------
(* A number above the last of an ascending list goes to its end.             *)
LEMMA AppendAscends ==
    ASSUME NEW sweep \in Seq(Int), NEW hz \in Int,
           \A i, j \in 1..Len(sweep) : i < j => sweep[i] < sweep[j],
           sweep = <<>> \/ sweep[Len(sweep)] < hz
    PROVE  \A i, j \in 1..Len(Append(sweep, hz)) :
               i < j => Append(sweep, hz)[i] < Append(sweep, hz)[j]
<1>1. /\ Len(sweep) \in Nat /\ \A i \in 1..Len(sweep) : sweep[i] \in Int
      /\ Len(Append(sweep, hz)) = Len(sweep) + 1
      /\ \A i \in 1..Len(sweep) : Append(sweep, hz)[i] = sweep[i]
      /\ Append(sweep, hz)[Len(sweep) + 1] = hz
  BY AppendProperties, ElementOfSeq, LenProperties
<1>2. ASSUME NEW i \in 1..Len(sweep) PROVE sweep[i] < hz
  <2>1. Len(sweep) \in 1..Len(sweep) /\ sweep # <<>>
    BY <1>1
  <2>2. i = Len(sweep) \/ sweep[i] < sweep[Len(sweep)]
    BY <1>1, <2>1
  <2>. QED
    BY <1>1, <2>1, <2>2
<1>3. SUFFICES ASSUME NEW i \in 1..Len(Append(sweep, hz)), NEW j \in 1..Len(Append(sweep, hz)),
                      i < j
               PROVE  Append(sweep, hz)[i] < Append(sweep, hz)[j]
  OBVIOUS
<1>4. i \in 1..Len(sweep) /\ (j \in 1..Len(sweep) \/ j = Len(sweep) + 1)
  BY <1>1, <1>3, SMTT(30)
<1>. QED
  BY <1>1, <1>2, <1>3, <1>4

(* One more point adds the entries of one point.                             *)
LEMMA OneMorePoint ==
    ASSUME NEW a \in Int, NEW b \in Int
    PROVE  (a + 1) * b = a * b + b
  OBVIOUS

(* Any sequence is one over its own elements.                                *)
LEMMA SequencesAreThemselves ==
    ASSUME NEW S, NEW seq \in Seq(S)
    PROVE  IsSequence(seq)
<1>1. Len(seq) \in Nat /\ DOMAIN seq = 1..Len(seq) /\ seq \in [1..Len(seq) -> S]
  BY LenProperties
<1>2. seq \in [1..Len(seq) -> {seq[i] : i \in 1..Len(seq)}]
  BY <1>1
<1>. QED
  BY <1>1, <1>2, SeqDef DEF IsSequence

(* Two sequences of anything join into one as long as both.                  *)
LEMMA SequencesJoin ==
    ASSUME NEW a, NEW b, IsSequence(a), IsSequence(b)
    PROVE  IsSequence(a \o b) /\ Len(a \o b) = Len(a) + Len(b)
<1> DEFINE A == {a[i] : i \in 1..Len(a)}
           B == {b[i] : i \in 1..Len(b)}
<1>1. a \in Seq(A) /\ b \in Seq(B)
  BY DEF IsSequence
<1> HIDE DEF A, B
<1>2. a \in Seq(A \cup B) /\ b \in Seq(A \cup B)
  BY <1>1, SeqMonotonic
<1>. QED
  BY <1>2, ConcatProperties, SequencesAreThemselves

(* flush_point's matrix has an entry for every pair of ports.                *)
LEMMA MatrixIsWhole ==
    ASSUME n \in Nat, NEW b
    PROVE  IsSequence(Matrix(b)) /\ Len(Matrix(b)) = n * n
<1>1. PICK size : size = n * n
  OBVIOUS
<1>2. size \in Nat
  BY <1>1
<1> DEFINE entry(e) == LET writers == Writers((e - 1) \div n + 1, ((e - 1) % n) + 1)
                       IN  IF writers = {} THEN Zero ELSE Pair(b, Max(writers))
<1>3. Matrix(b) = [e \in 1..size |-> entry(e)]
  BY <1>1 DEF Matrix
<1> HIDE DEF entry
<1> DEFINE entries == {entry(e) : e \in 1..size}
<1>4. [e \in 1..size |-> entry(e)] \in [1..size -> entries]
  OBVIOUS
<1> HIDE DEF entries
<1>5. Matrix(b) \in Seq(entries) /\ DOMAIN Matrix(b) = 1..size
  BY <1>2, <1>3, <1>4, SeqDef
<1>6. Len(Matrix(b)) = size
  BY <1>2, <1>5, LenProperties
<1>. QED
  BY <1>1, <1>5, <1>6, SequencesAreThemselves
-----------------------------------------------------------------------------
(* A token that leaves its point open.                                       *)
LEMMA PushTokenPreserves ==
    ASSUME IInv, PushToken
    PROVE  IInv'
<1>1. pc = "tokens" /\ block' = Extended /\ Advance /\ UNCHANGED <<freqHz, s>>
  BY DEF PushToken
<1>2. /\ ControlInv' /\ pc' \in {"network", "tokens"} /\ pos' \in 0..Len(file)
      /\ col' \in Nat /\ blockLine' = OpenedOn
      /\ UNCHANGED <<input, header, list, noise, hint>>
  BY <1>1, AdvanceKeepsControl
<1>3. Extended \in Seq(AllPlaces) /\ InFile(Extended[1]) /\ OpenedOn = Extended[1][1]
  BY <1>1, TokenExtends
<1>4. ScanTypes'
  BY <1>1, <1>2, <1>3 DEF IInv, ScanTypes, IsSequence, input, Sections
<1>5. BlockInv'
  BY <1>1, <1>2, <1>3 DEF BlockInv, InFile, input
<1>6. ShapeInv' /\ SweepAscends'
  BY <1>1, <1>2 DEF IInv, ShapeInv, SweepAscends, Finite
<1>. QED
  BY <1>2, <1>4, <1>5, <1>6 DEF IInv

(* What a point has passed when it is added.                                 *)
LEMMA PointPasses ==
    ASSUME IInv, AddPoint
    PROVE  /\ pc = "tokens" /\ Frozen /\ Advance /\ block' = <<>>
           /\ \E hz \in Int : Finite(hz) /\ PastLast(hz) /\ freqHz' = Append(freqHz, hz)
           /\ IsSequence(s') /\ Len(s') = Len(s) + n * n
<1>1. /\ pc = "tokens" /\ Advance /\ block' = <<>> /\ PointFault(Extended) = NoFault
      /\ s' = s \o Matrix(Extended)
      /\ freqHz' = Append(freqHz, Value(Extended[1]))
  BY DEF AddPoint
<1>2. Frozen
  BY <1>1 DEF IInv, ControlInv
<1>3. Value(Extended[1]) \in Int
  BY <1>1, TokenExtends
<1>4. Finite(Value(Extended[1])) /\ PastLast(Value(Extended[1]))
  BY <1>1 DEF PointFault, NoFault
<1>5. IsSequence(Matrix(Extended)) /\ Len(Matrix(Extended)) = n * n
  BY <1>2, MatrixIsWhole DEF Frozen, n
<1>6. IsSequence(s') /\ Len(s') = Len(s) + n * n
  BY <1>1, <1>5, SequencesJoin DEF IInv, ScanTypes
<1>. QED
  BY <1>1, <1>2, <1>3, <1>4, <1>6

(* A token that completes its point.                                         *)
LEMMA AddPointPreserves ==
    ASSUME IInv, AddPoint
    PROVE  IInv'
<1>1. /\ pc = "tokens" /\ Frozen /\ Advance /\ block' = <<>>
      /\ IsSequence(s') /\ Len(s') = Len(s) + n * n
  BY PointPasses
<1>2. PICK hz \in Int : Finite(hz) /\ PastLast(hz) /\ freqHz' = Append(freqHz, hz)
  BY PointPasses
<1>3. /\ ControlInv' /\ pc' \in {"network", "tokens"} /\ pos' \in 0..Len(file)
      /\ col' \in Nat /\ UNCHANGED <<input, header, list, noise, hint>>
  BY <1>1, AdvanceKeepsControl
<1>4. /\ freqHz \in Seq(Int) /\ Len(freqHz) \in Nat /\ freqHz' \in Seq(Int)
      /\ Len(freqHz') = Len(freqHz) + 1
      /\ \A i \in 1..Len(freqHz) : freqHz'[i] = freqHz[i]
      /\ freqHz'[Len(freqHz) + 1] = hz
  BY <1>2, AppendProperties DEF IInv, ScanTypes
<1>5. ScanTypes'
  BY <1>1, <1>3, <1>4 DEF IInv, ScanTypes, IsSequence, input, Sections
<1>6. BlockInv'
  BY <1>1 DEF BlockInv
<1>7. ShapeInv'
  <2>1. PICK size \in Int : size = n * n
    BY <1>1 DEF Frozen, n
  <2>2. Len(s) = Len(freqHz) * size
    <3>1. CASE freqHz = <<>>
      <4>1. s = <<>> /\ Len(freqHz) = 0
        BY <3>1 DEF IInv, ShapeInv
      <4>. QED
        BY <2>1, <4>1
    <3>2. CASE freqHz # <<>>
      BY <2>1, <3>2 DEF IInv, ShapeInv, n
    <3>. QED
      BY <3>1, <3>2
  <2>3. Len(s') = (Len(freqHz) + 1) * size
    BY <1>1, <1>4, <2>1, <2>2, OneMorePoint
  <2>4. freqHz' # <<>>
    BY <1>4
  <2>5. header' = header /\ header.nports \in Nat \ {0}
    BY <1>1, <1>3 DEF Frozen
  <2>. QED
    BY <1>4, <2>1, <2>3, <2>4, <2>5 DEF ShapeInv, n
<1>8. SweepAscends'
  <2>1. \A i, j \in 1..Len(freqHz') : i < j => freqHz'[i] < freqHz'[j]
    BY <1>2, <1>4, AppendAscends DEF IInv, SweepAscends, PastLast
  <2>2. \A i \in 1..Len(freqHz') : Finite(freqHz'[i])
    <3>1. \A i \in 1..Len(freqHz') : i \in 1..Len(freqHz) \/ i = Len(freqHz) + 1
      BY <1>4
    <3>. QED
      BY <1>2, <1>4, <3>1 DEF IInv, SweepAscends
  <2>. QED
    BY <1>3, <2>1, <2>2 DEF IInv, SweepAscends, Finite
<1>. QED
  BY <1>3, <1>5, <1>6, <1>7, <1>8 DEF IInv

(* A token that is no number, or completes a bad point.                      *)
LEMMA RejectTokenPreserves ==
    ASSUME IInv, RejectToken
    PROVE  IInv'
<1>1. pos' \in 0..Len(file)
  BY DEF RejectToken, IInv, ScanTypes
<1>. QED
  BY <1>1, FailPreserves DEF RejectToken
-----------------------------------------------------------------------------
(* The loop over the lines behind the header.                                *)
LEMMA SectionPreserves ==
    ASSUME IInv, SkipSectionLine \/ EndFile \/ BeginNoise
    PROVE  IInv'
<1>1. /\ pc \in Sections /\ pos' \in 0..Len(file)
      /\ UNCHANGED <<input, header, list, block, blockLine, freqHz, s, noise, col>>
  BY SectionMoves
     DEF SkipSectionLine, EndFile, BeginNoise, TakesSectionKeyword, headerVars, dataVars,
         points, rows
<1>2. pc' \in Sections /\ (pc' = "network" => pc = "network")
  BY <1>1 DEF SkipSectionLine, EndFile, BeginNoise, Sections
<1>3. pc' = "noise" => header.nports = 2
  <2>1. CASE BeginNoise
    <3>1. Line.kind = "NoiseData" /\ SectionKeywordFault(Line.kind) = NoFault
      BY <2>1, SectionMoves DEF BeginNoise, TakesSectionKeyword
    <3>2. pc # "ended"
      BY <3>1 DEF SectionKeywordFault, NoFault
    <3>3. NoiseDataFault = NoFault
      BY <3>1, <3>2 DEF SectionKeywordFault
    <3>. QED
      BY <3>3 DEF NoiseDataFault, NoFault, n
  <2>2. CASE SkipSectionLine \/ EndFile
    BY <2>2 DEF SkipSectionLine, EndFile, IInv, ControlInv
  <2>. QED
    BY <2>1, <2>2
<1>4. ControlInv'
  BY <1>1, <1>2, <1>3, SectionsKeepControl
<1>5. ScanTypes'
  BY <1>1, <1>2, ScanUntouched DEF IInv, ScanTypes
<1>. QED
  BY <1>1, <1>4, <1>5, DataUntouched DEF IInv

(* What the section loop refuses.                                            *)
LEMMA RejectSectionPreserves ==
    ASSUME IInv, RejectSectionKeyword \/ RejectContent \/ RejectNoiseLine
    PROVE  IInv'
<1>1. \E kinds : \E section \in Sections : Takes(section, kinds)
  BY DEF RejectSectionKeyword, RejectContent, RejectNoiseLine, Sections
<1>2. pos' \in 0..Len(file)
  BY <1>1, SectionMoves
<1>. QED
  BY <1>2, FailPreserves DEF RejectSectionKeyword, RejectContent, RejectNoiseLine

(* What a noise line has passed when its point is added.                     *)
LEMMA RowPasses ==
    ASSUME IInv, AddNoisePoint
    PROVE  /\ pc = "noise" /\ pc' = "noise" /\ pos' \in 0..Len(file)
           /\ UNCHANGED <<input, headerVars, outcome, points, z0>>
           /\ \E row \in Rows : /\ Finite(row.hz) /\ PastLastRow(row.hz)
                                /\ noise' = Append(noise, row)
<1>1. /\ pc = "noise" /\ pc' = "noise" /\ Takes("noise", {"data"})
      /\ RowFault(Line.v) = NoFault
      /\ noise' = Append(noise, [hz |-> Line.v[1], line |-> NextLine])
      /\ UNCHANGED <<input, headerVars, outcome, points, z0>>
  BY DEF AddNoisePoint, Takes
<1>2. pos < Len(file) /\ pos' \in 0..Len(file)
  BY <1>1, SectionMoves DEF Takes, Sections
<1>3. Line.v \in Seq(Int) /\ NextLine \in Nat
  BY <1>2, LineIsTyped DEF IInv, ScanTypes
<1>4. Len(Line.v) = 5 /\ Finite(Line.v[1]) /\ PastLastRow(Line.v[1])
  BY <1>1 DEF RowFault, NoFault, NoiseValuesPerSet
<1>5. Line.v[1] \in Int
  BY <1>3, <1>4, ElementOfSeq
<1>. QED
  BY <1>1, <1>2, <1>3, <1>4, <1>5 DEF Rows

(* A noise line goes to the end of the noise.                                *)
LEMMA AddNoisePointPreserves ==
    ASSUME IInv, AddNoisePoint
    PROVE  IInv'
<1>1. /\ pc = "noise" /\ pc' = "noise" /\ pos' \in 0..Len(file)
      /\ UNCHANGED <<input, headerVars, outcome, points, z0>>
  BY RowPasses
<1>2. PICK row \in Rows : /\ Finite(row.hz) /\ PastLastRow(row.hz)
                          /\ noise' = Append(noise, row)
  BY RowPasses
<1>3. /\ noise \in Seq(Rows) /\ Len(noise) \in Nat /\ noise' \in Seq(Rows)
      /\ Len(noise') = Len(noise) + 1
      /\ \A i \in 1..Len(noise) : noise'[i] = noise[i]
      /\ noise'[Len(noise) + 1] = row
  BY <1>2, AppendProperties DEF IInv, ScanTypes
<1>4. ScanTypes'
  BY <1>1, <1>3 DEF IInv, ScanTypes, IsSequence, input, headerVars, points, Sections
<1>5. ControlInv'
  BY <1>1, SectionsKeepControl DEF IInv, ControlInv, headerVars, Sections
<1>6. BlockInv' /\ ShapeInv'
  BY <1>1 DEF IInv, BlockInv, InFile, ShapeInv, input, headerVars, points
<1>7. \A i \in 1..Len(noise) : noise[i].hz < row.hz
  <2>1. row.hz \in Int /\ \A i \in 1..Len(noise) : noise[i].hz \in Int
    <3>1. \A i \in 1..Len(noise) : noise[i] \in Rows
      BY <1>3, ElementOfSeq
    <3>. QED
      BY <3>1 DEF Rows
  <2>2. SUFFICES ASSUME NEW i \in 1..Len(noise) PROVE noise[i].hz < row.hz
    OBVIOUS
  <2>3. Len(noise) \in 1..Len(noise) /\ noise # <<>>
    BY <1>3
  <2>4. noise[Len(noise)].hz < row.hz
    BY <1>2, <2>3 DEF PastLastRow
  <2>5. i = Len(noise) \/ noise[i].hz < noise[Len(noise)].hz
    BY <1>3, <2>3 DEF IInv, SweepAscends
  <2>. QED
    BY <2>1, <2>3, <2>4, <2>5
<1>8. \A i, j \in 1..Len(noise') : i < j => noise'[i].hz < noise'[j].hz
  <2>1. SUFFICES ASSUME NEW i \in 1..Len(noise'), NEW j \in 1..Len(noise'), i < j
                 PROVE  noise'[i].hz < noise'[j].hz
    OBVIOUS
  <2>2. i \in 1..Len(noise) /\ noise'[i] = noise[i]
    BY <1>3, <2>1
  <2>3. CASE j \in 1..Len(noise)
    BY <1>3, <2>1, <2>2, <2>3 DEF IInv, SweepAscends
  <2>4. CASE j = Len(noise) + 1
    BY <1>3, <1>7, <2>2, <2>4
  <2>. QED
    BY <1>3, <2>1, <2>3, <2>4
<1>9. \A i \in 1..Len(noise') : Finite(noise'[i].hz)
  <2>1. Finite(row.hz)
    BY <1>2
  <2>2. SUFFICES ASSUME NEW i \in 1..Len(noise') PROVE Finite(noise'[i].hz)
    OBVIOUS
  <2>3. CASE i \in 1..Len(noise)
    BY <1>3, <2>3 DEF IInv, SweepAscends
  <2>4. CASE i = Len(noise) + 1
    BY <1>3, <2>1, <2>4
  <2>. QED
    BY <1>3, <2>2, <2>3, <2>4
<1>10. SweepAscends'
  BY <1>1, <1>8, <1>9 DEF IInv, SweepAscends, Finite, points
<1>. QED
  BY <1>4, <1>5, <1>6, <1>10 DEF IInv

(* The end of the file, accepted or not.                                     *)
LEMMA ReachEndPreserves ==
    ASSUME IInv, ReachEnd
    PROVE  IInv'
<1>1. pc \in Sections /\ pos' \in 0..Len(file)
  BY SectionMoves DEF ReachEnd
<1>2. CASE Fail(EndFault, EndFaultLine)
  BY <1>1, <1>2, FailPreserves
<1>3. CASE Answer("network", 0) /\ UNCHANGED <<input, headerVars, points, rows>>
  <2>1. pc' = "done" /\ UNCHANGED <<input, header, list, block, blockLine, freqHz, s, noise, col>>
    BY <1>3 DEF Answer, headerVars, points, rows
  <2>2. ControlInv'
    BY <2>1 DEF ControlInv, HeaderLoops, Sections
  <2>3. ScanTypes'
    BY <1>1, <2>1, ScanUntouched DEF IInv, ScanTypes
  <2>. QED
    BY <2>1, <2>2, <2>3, DataUntouched DEF IInv
<1>. QED
  BY <1>2, <1>3 DEF ReachEnd

(* The invariant is inductive: one line per action.                          *)
THEOREM StepPreserves == IInv /\ [Next]_vars => IInv'
<1> SUFFICES ASSUME IInv, [Next]_vars PROVE IInv'
  OBVIOUS
<1>1. CASE ReadHeader
  BY <1>1, ReadHeaderPreserves
<1>2. CASE FreezePlan \/ RejectPlan
  BY <1>2, PlanPreserves
<1>3. CASE TakeDataLine
  BY <1>3, TakeDataLinePreserves
<1>4. CASE PushToken
  BY <1>4, PushTokenPreserves
<1>5. CASE AddPoint
  BY <1>5, AddPointPreserves
<1>6. CASE RejectToken
  BY <1>6, RejectTokenPreserves
<1>7. CASE SkipSectionLine \/ BeginNoise \/ EndFile
  BY <1>7, SectionPreserves
<1>8. CASE RejectSectionKeyword \/ RejectContent \/ RejectNoiseLine
  BY <1>8, RejectSectionPreserves
<1>9. CASE AddNoisePoint
  BY <1>9, AddNoisePointPreserves
<1>10. CASE ReachEnd
  BY <1>10, ReachEndPreserves
<1>11. CASE Done \/ UNCHANGED vars
  <2>1. UNCHANGED vars
    BY <1>11 DEF Done
  <2>2. /\ UNCHANGED <<input, pc, pos, header, list, col, block, blockLine, freqHz, s, noise>>
    BY <2>1 DEF vars, headerVars, dataVars, points, rows
  <2>3. ControlInv'
    BY <2>2 DEF IInv, ControlInv, Frozen, input
  <2>4. ScanTypes'
    BY <2>2 DEF IInv, ScanTypes, IsSequence, input
  <2>. QED
    BY <2>2, <2>3, <2>4, DataUntouched DEF IInv
<1>. QED
  BY <1>1, <1>2, <1>3, <1>4, <1>5, <1>6, <1>7, <1>8, <1>9, <1>10, <1>11 DEF Next

(* The invariant holds in every state the reader can reach.                  *)
THEOREM Invariance == Spec => []IInv
<1>1. Init => IInv
  BY InitEstablishes
<1>2. IInv /\ [Next]_vars => IInv'
  BY StepPreserves
<1>. QED
  BY <1>1, <1>2, PTL DEF Spec
-----------------------------------------------------------------------------
(* Whatever is read, the frequencies of both sweeps are strictly ascending   *)
(* and those of the network finite (flush_point, NoisePoints::push_line).    *)
THEOREM SweepsAscend == Spec => []SweepAscends
  BY Invariance, PTL DEF IInv

(* An error in a point is blamed on the line its first token stands on, also *)
(* where a line closes one point and opens the next (block_line).            *)
THEOREM PointsKnowTheirLine == Spec => []PointKnowsItsLine
<1>1. IInv => PointKnowsItsLine
  BY DEF IInv, BlockInv, PointKnowsItsLine
<1>. QED
  BY <1>1, Invariance, PTL

(* Every point holds a whole matrix, whichever format the file writes it in  *)
(* (NetworkData::flush_point resizes before it assigns).                     *)
THEOREM MatricesAreWhole == Spec => [](freqHz # <<>> => Len(s) = Len(freqHz) * (n * n))
<1>1. IInv => (freqHz # <<>> => Len(s) = Len(freqHz) * (n * n))
  BY DEF IInv, ShapeInv, n
<1>. QED
  BY <1>1, Invariance, PTL
-----------------------------------------------------------------------------
(* The reader implements SweepReader: every step maps to one of its steps or *)
(* changes nothing a caller could see.                                       *)

(* Steps inside the scan that no caller sees.                                *)
LEMMA HiddenSteps ==
    ASSUME UNCHANGED <<hint, freqHz, s, noise, z0>>, pc # "done", pc' # "done",
           freqHz = <<>> \/ UNCHANGED header
    PROVE  UNCHANGED Promise!vars
  BY DEF Promise!vars

(* Every error is a rejection by the abstract reader.                        *)
LEMMA RejectMaps ==
    ASSUME pc # "done", NEW kind, NEW line, kind # "network", Fail(kind, line)
    PROVE  Promise!Reject
  BY DEF Promise!Reject, Fail, FailHeader, Answer, input, headerVars, dataVars, points, rows

(* The header loops are hidden, but for their errors.                        *)
LEMMA HeaderMaps ==
    ASSUME IInv, ReadHeader
    PROVE  Promise!Reject \/ UNCHANGED Promise!vars
<1>1. HeaderOutcome /\ UNCHANGED dataVars
  BY HeaderSteps DEF IInv, ReadHeader
<1>2. /\ pc # "done" /\ freqHz = <<>>
      /\ UNCHANGED <<hint, freqHz, s, noise, z0>>
      /\ pc' = "done" => outcome'.kind # "network"
  BY <1>1 DEF HeaderOutcome, HeaderLoops, IInv, ControlInv, input, dataVars, points, rows
<1>3. CASE pc' = "done"
  BY <1>2, <1>3 DEF Promise!Reject
<1>4. CASE pc' # "done"
  BY <1>2, <1>4, HiddenSteps
<1>. QED
  BY <1>3, <1>4

(* A flushed point is one whole point of the abstract reader.                *)
LEMMA PointMaps ==
    ASSUME IInv, AddPoint
    PROVE  Promise!AddPoint
<1>1. /\ pc = "tokens" /\ Frozen /\ Advance
      /\ Len(s') = Len(s) + n * n
  BY PointPasses
<1>2. PICK hz \in Int : Finite(hz) /\ PastLast(hz) /\ freqHz' = Append(freqHz, hz)
  BY PointPasses
<1>3. /\ pc' \in {"network", "tokens"} /\ UNCHANGED <<header, noise, hint, z0>>
  BY <1>1, AdvanceKeepsControl
<1>4. noise = <<>>
  BY <1>1 DEF IInv, ControlInv
<1>5. hz \in -MaxFinite..MaxFinite
  BY <1>2, MaxFiniteAssumption DEF Finite
<1>6. freqHz' # <<>>
  <2>1. Len(freqHz') = Len(freqHz) + 1 /\ Len(freqHz) \in Nat
    BY <1>2, AppendProperties DEF IInv, ScanTypes
  <2>. QED
    BY <2>1
<1>7. \E f \in -MaxFinite..MaxFinite : Promise!Above(freqHz, f) /\ freqHz' = Append(freqHz, f)
  BY <1>2, <1>5 DEF Promise!Above, PastLast
<1>8. header'.nports = n /\ n \in Nat \ {0} /\ hint \in {None, n} /\ header.nports = n
  BY <1>1, <1>3 DEF Frozen, n
<1>9. [i \in 1..Len(noise) |-> noise[i].hz] = <<>> /\ Len(noise) = 0
  BY <1>4
<1>. QED
  BY <1>1, <1>3, <1>4, <1>6, <1>7, <1>8, <1>9 DEF Promise!AddPoint

(* A noise line is one noise point of the abstract reader.                   *)
LEMMA NoiseMaps ==
    ASSUME IInv, AddNoisePoint
    PROVE  Promise!AddNoisePoint
<1> DEFINE sweep == [i \in 1..Len(noise) |-> noise[i].hz]
<1>1. /\ pc = "noise" /\ pc' = "noise"
      /\ UNCHANGED <<input, headerVars, outcome, points, z0>>
  BY RowPasses
<1>2. PICK row \in Rows : /\ Finite(row.hz) /\ PastLastRow(row.hz)
                          /\ noise' = Append(noise, row)
  BY RowPasses
<1>3. row.hz \in Int /\ row.hz \in -MaxFinite..MaxFinite
  BY <1>2, MaxFiniteAssumption DEF Finite, Rows
<1>4. /\ noise \in Seq(Rows) /\ Len(noise) \in Nat
      /\ Len(noise') = Len(noise) + 1
      /\ \A i \in 1..Len(noise) : noise'[i] = noise[i]
      /\ noise'[Len(noise) + 1] = row
  BY <1>2, AppendProperties DEF IInv, ScanTypes
<1>5. sweep \in Seq(Int) /\ Len(sweep) = Len(noise)
  <2>1. \A i \in 1..Len(noise) : noise[i] \in Rows
    BY <1>4, ElementOfSeq
  <2>2. \A i \in 1..Len(noise) : noise[i].hz \in Int
    BY <2>1 DEF Rows
  <2>. QED
    BY <1>4, <2>2
<1>6. [i \in 1..Len(noise') |-> noise'[i].hz] = Append(sweep, row.hz)
  <2>1. Append(sweep, row.hz) = [i \in 1..(Len(sweep) + 1) |->
                                    IF i = Len(sweep) + 1 THEN row.hz ELSE sweep[i]]
    BY <1>5
  <2>. QED
    BY <1>4, <1>5, <2>1
<1>7. Promise!Above(sweep, row.hz)
  <2>1. CASE noise = <<>>
    BY <1>5, <2>1, EmptySeq DEF Promise!Above
  <2>2. CASE noise # <<>>
    BY <1>2, <1>4, <1>5, <2>2, EmptySeq DEF Promise!Above, PastLastRow
  <2>. QED
    BY <2>1, <2>2
<1>8. header.nports = 2 /\ hint \in {None, 2} /\ UNCHANGED <<hint, header, freqHz, s>>
  BY <1>1 DEF IInv, ControlInv, Frozen, Sections, input, headerVars, points
<1>. QED
  BY <1>1, <1>3, <1>6, <1>7, <1>8 DEF Promise!AddNoisePoint

(* An accepted file has one reference for each port of each point.           *)
LEMMA AcceptMaps ==
    ASSUME IInv, ReachEnd, EndFault = NoFault
    PROVE  Promise!Accept
<1>1. pc \in Sections /\ Frozen
  BY SectionMoves DEF ReachEnd, IInv, ControlInv
<1>2. /\ z0' = BroadcastReference /\ pc' = "done" /\ outcome' = [kind |-> "network", line |-> 0]
      /\ UNCHANGED <<input, headerVars, points, rows>>
  BY DEF ReachEnd, Answer
<1>3. Len(freqHz) = header.nfreqs
  BY DEF EndFault, NoFault
<1>4. freqHz # <<>> /\ Len(freqHz) \in Nat
  BY <1>1, <1>3 DEF Frozen
<1>5. Len(z0') = Len(freqHz) * n
  <2>1. PICK size \in Nat : size = Len(freqHz) * n
    BY <1>1, <1>4 DEF Frozen, n
  <2>2. BroadcastReference = [i \in 1..size |-> PerPort[((i - 1) % n) + 1]]
    BY <2>1 DEF BroadcastReference
  <2>. QED
    BY <1>2, <2>1, <2>2
<1>6. UNCHANGED <<hint, header, freqHz, s, noise>> /\ pc # "done"
  BY <1>1, <1>2 DEF input, headerVars, points, rows, Sections
<1>. QED
  BY <1>2, <1>4, <1>5, <1>6 DEF Promise!Accept, n

(* Whatever a caller sees of the scan is a behaviour of SweepReader: points  *)
(* appended whole and ascending, noise only behind two ports, one answer.    *)
THEOREM RefinesSweepReader == Spec => Promise!Init /\ [][Promise!Next]_(Promise!vars)
<1>1. Init => Promise!Init
  <2> SUFFICES ASSUME Init PROVE Promise!Init
    OBVIOUS
  <2>1. hint \in Nat \cup {None} /\ freqHz = <<>> /\ s = <<>> /\ noise = <<>> /\ z0 = <<>>
        /\ pc = "header"
    BY HintsAssumption DEF Init, HeaderInit
  <2>. QED
    BY <2>1 DEF Promise!Init
<1>2. IInv /\ [Next]_vars => [Promise!Next]_(Promise!vars)
  <2> SUFFICES ASSUME IInv, [Next]_vars PROVE [Promise!Next]_(Promise!vars)
    OBVIOUS
  <2>1. CASE ReadHeader
    BY <2>1, HeaderMaps DEF Promise!Next
  <2>2. CASE AddPoint
    BY <2>2, PointMaps DEF Promise!Next
  <2>3. CASE AddNoisePoint
    BY <2>3, NoiseMaps DEF Promise!Next
  <2>4. CASE \E kind, line : kind # "network" /\ Fail(kind, line) /\ pc # "done"
    BY <2>4, RejectMaps DEF Promise!Next
  <2>5. CASE \/ FreezePlan \/ TakeDataLine \/ PushToken \/ SkipSectionLine \/ BeginNoise
             \/ EndFile
    <3>1. pc # "done" /\ UNCHANGED <<hint, freqHz, s, noise, z0, header>>
      BY <2>5
         DEF FreezePlan, TakeDataLine, Takes, PushToken, Advance, SkipSectionLine, BeginNoise,
             EndFile, TakesSectionKeyword, Sections, input, headerVars, dataVars, points, rows
    <3>2. pc' # "done"
      BY <2>5, <3>1
         DEF FreezePlan, TakeDataLine, PushToken, Advance, SkipSectionLine, BeginNoise, EndFile
    <3>. QED
      BY <3>1, <3>2, HiddenSteps
  <2>6. CASE RejectPlan
    <3>1. PlanFault # "network"
      BY DEF PlanFault, NoFault
    <3>. QED
      BY <2>4, <2>6, <3>1 DEF RejectPlan
  <2>7. CASE RejectToken
    <3>1. PointFault(Extended) # "network"
      BY DEF PointFault, NoFault
    <3>. QED
      BY <2>4, <2>7, <3>1 DEF RejectToken
  <2>8. CASE RejectSectionKeyword
    <3>1. NoiseDataFault # "network"
      BY DEF NoiseDataFault, NoFault
    <3>2. PICK section \in Sections : Takes(section, Bracketed)
      BY <2>8 DEF RejectSectionKeyword
    <3>3. pc # "done" /\ Line.kind \in Bracketed
      BY <3>2 DEF Takes, Sections
    <3>4. SectionKeywordFault(Line.kind) # "network"
      BY <3>1 DEF SectionKeywordFault, NoFault
    <3>. QED
      BY <2>4, <2>8, <3>3, <3>4 DEF RejectSectionKeyword
  <2>9. CASE RejectContent
    BY <2>4, <2>9 DEF RejectContent, Takes
  <2>10. CASE RejectNoiseLine
    <3>1. RowFault(Line.v) # "network"
      BY DEF RowFault, NoFault
    <3>. QED
      BY <2>4, <2>10, <3>1 DEF RejectNoiseLine, Takes
  <2>11. CASE ReachEnd
    <3>1. EndFault # "network"
      BY DEF EndFault, NoiseCountFault, NoFault
    <3>2. pc # "done"
      BY <2>11, SectionMoves DEF ReachEnd, Sections
    <3>3. CASE EndFault = NoFault
      BY <2>11, <3>3, AcceptMaps DEF Promise!Next
    <3>4. CASE EndFault # NoFault
      BY <2>4, <2>11, <3>1, <3>2, <3>4 DEF ReachEnd
    <3>. QED
      BY <3>3, <3>4
  <2>12. CASE Done \/ UNCHANGED vars
    BY <2>12 DEF Done, vars, input, headerVars, dataVars, points, rows, Promise!vars
  <2>. QED
    BY <2>1, <2>2, <2>3, <2>5, <2>6, <2>7, <2>8, <2>9, <2>10, <2>11, <2>12 DEF Next
<1>. QED
  BY <1>1, <1>2, Invariance, PTL DEF Spec
-----------------------------------------------------------------------------

Behind == Sections \cup {"tokens"}

(* The tokens on the first lines of a file.                                  *)
Before(f) ==
    CHOOSE upTo : upTo = [i \in 0..Len(f) |-> IF i = 0 THEN 0
                                              ELSE upTo[i - 1] + Len(f[i].v)]

(* The tokens taken or passed over so far.                                   *)
Reached == IF pc = "tokens" THEN Before(file)[pos - 1] + col ELSE Before(file)[pos]

(* No token is counted for two points.                                       *)
SpentInv == pc \in Behind => Len(freqHz) * PointSize + Len(block) <= Reached

(* What the header holds: a port count has a size and was claimed, a         *)
(* reference list names every port.                                          *)
Declared ==
    /\ header.nports # None => /\ ValuesPerPoint(header.nports) # None
                               /\ "NumberOfPorts" \in header.seen
    /\ header.options \in 0..Len(file)
    /\ header.reference # <<>> => Len(header.reference) = header.nports
    /\ listCapacity \in Nat
    /\ openedAt \in 0..Len(file)
    /\ dataStartsAt \in 0..Len(file)

BudgetInv ==
    /\ fileValues \in Nat
    /\ TokensIn(file) <= fileValues
    /\ Declared
    /\ DataFitsTheFile
    /\ SpentInv
-----------------------------------------------------------------------------
(* Token counts add up line by line.                                         *)
LEMMA TokensAddUp ==
    ASSUME NEW f \in Seq(Lines)
    PROVE  /\ TokensIn(f) = Before(f)[Len(f)]
           /\ Before(f) \in [0..Len(f) -> Nat]
           /\ Before(f)[0] = 0
           /\ \A i \in 1..Len(f) : Before(f)[i] = Before(f)[i - 1] + Len(f[i].v)
           /\ \A j \in 0..Len(f) : \A i \in 0..j : Before(f)[i] <= Before(f)[j]
<1>1. PICK last \in Nat : last = Len(f)
  OBVIOUS
<1>2. \A i \in 1..last : Len(f[i].v) \in Nat
  <2>1. SUFFICES ASSUME NEW i \in 1..last PROVE Len(f[i].v) \in Nat
    OBVIOUS
  <2>2. f[i] \in Lines
    BY <1>1, ElementOfSeq
  <2>. QED
    BY <2>2 DEF Lines
<1> DEFINE part == [i \in 1..last |-> Len(f[i].v)]
           step == [i \in 1..last |-> [x \in Nat |-> x + part[i]]]
<1>3. part \in [1..last -> Nat] /\ \A i \in 1..last : part[i] = Len(f[i].v)
  BY <1>2
<1> HIDE DEF part
<1>4. step \in [1..last -> [Nat -> Nat]] /\ 0 \in Nat
  BY <1>3
<1>5. PICK g \in [0..last -> Nat] : /\ g[0] = 0
                                    /\ \A i \in 1..last : g[i] = step[i][g[i - 1]]
  <2> HIDE DEF step
  <2>1. IsDefined(last, Nat, 0, step)
    BY <1>4, RecursionDefines
  <2>. QED
    BY <2>1 DEF IsDefined
<1>6. \A i \in 1..last : g[i] = g[i - 1] + part[i]
  <2>1. SUFFICES ASSUME NEW i \in 1..last PROVE g[i] = g[i - 1] + part[i]
    OBVIOUS
  <2>2. \A x \in Nat : step[i][x] = x + part[i]
    OBVIOUS
  <2> HIDE DEF step
  <2>3. g[i - 1] \in Nat
    OBVIOUS
  <2>. QED
    BY <1>5, <2>2, <2>3
<1> HIDE DEF step
<1> DEFINE Rec(h) == h = [i \in 0..last |-> IF i = 0 THEN 0 ELSE h[i - 1] + Len(f[i].v)]
<1>7. Rec(g)
  <2>1. \A i \in 0..last : g[i] = IF i = 0 THEN 0 ELSE g[i - 1] + Len(f[i].v)
    BY <1>3, <1>5, <1>6, SMTT(30)
  <2>2. g = [i \in 0..last |-> g[i]]
    OBVIOUS
  <2>. QED
    BY <2>1, <2>2
<1>8. PICK h : h = Before(f)
  OBVIOUS
<1>9. Rec(h)
  <2>1. h = CHOOSE upTo : Rec(upTo)
    BY <1>1, <1>8 DEF Before
  <2> HIDE DEF Rec
  <2>. QED
    BY <1>7, <2>1
<1>10. \A i \in 0..last : h[i] = IF i = 0 THEN 0 ELSE h[i - 1] + Len(f[i].v)
  BY <1>9, Zenon
<1>11. DOMAIN h = 0..last /\ h = [i \in 0..last |-> h[i]]
  BY <1>9
<1> HIDE DEF Rec
<1>16. h[0] = 0 /\ \A i \in 1..last : h[i] = h[i - 1] + part[i]
  <2>1. 0 \in 0..last /\ \A i \in 1..last : i \in 0..last /\ i # 0
    OBVIOUS
  <2>. QED
    BY <1>3, <1>10, <2>1, Zenon
<1> DEFINE T == {i \in 0..last : h[i] \in Nat}
<1>12. 0 \in T
  BY <1>16
<1>13. ASSUME NEW i \in 1..last, i - 1 \in T PROVE i \in T
  <2>1. h[i] = h[i - 1] + part[i] /\ h[i - 1] \in Nat /\ i \in 0..last
    BY <1>13, <1>16
  <2>2. part[i] \in Nat
    BY <1>3
  <2>. QED
    BY <2>1, <2>2
<1> HIDE DEF T
<1>14. \A i \in 0..last : i \in T
  BY <1>12, <1>13, StepByStep
<1>15. h \in [0..last -> Nat]
  BY <1>11, <1>14 DEF T
<1>17. \A j \in 0..last : \A i \in 0..j : h[i] <= h[j]
  BY <1>3, <1>15, <1>16, TotalsGrow
<1>18. TokensIn(f) = Before(f)[Len(f)]
  BY DEF TokensIn, Before
<1>. QED
  BY <1>1, <1>3, <1>8, <1>15, <1>16, <1>17, <1>18
-----------------------------------------------------------------------------
(* What a step of the header leaves as it was.                               *)
HeaderKept ==
    /\ header'.nports = header.nports
    /\ header'.reference = header.reference
    /\ header.seen \subseteq header'.seen
    /\ header'.options \in 0..Len(file)
    /\ listCapacity' \in Nat /\ openedAt' \in 0..Len(file) /\ dataStartsAt' \in 0..Len(file)
    /\ UNCHANGED file

LEMMA KeptIsDeclared ==
    ASSUME Declared, HeaderKept
    PROVE  Declared'
<1>1. PICK u : u = header.nports
  OBVIOUS
<1>2. PICK r : r = header.reference
  OBVIOUS
<1>. QED
  BY <1>1, <1>2 DEF Declared, HeaderKept, ValuesPerPoint, Fits

(* A reference list that has come to its end.                                *)
LEMMA ListIsDeclared ==
    ASSUME IInv, Declared, header' \in Headers,
           header'.nports = header.nports, header.seen \subseteq header'.seen,
           header'.options = header.options,
           NEW values, header'.reference = values, Len(values) = header.nports,
           listCapacity' \in Nat, openedAt' \in 0..Len(file), dataStartsAt' \in 0..Len(file),
           UNCHANGED file
    PROVE  Declared'
<1>1. PICK u : u = header.nports
  OBVIOUS
<1>. QED
  BY <1>1 DEF Declared, ValuesPerPoint, Fits

(* The header loops keep what is declared: one step per action.              *)
LEMMA DeclaredIsKept ==
    ASSUME IInv, Declared, HeaderNext
    PROVE  Declared'
<1> USE DEF headerVars, input
<1>1. /\ header \in Headers /\ file \in Seq(Lines) /\ Len(file) \in Nat
      /\ pos \in 0..Len(file) /\ list \in Seq(AllPlaces)
  BY DEF IInv, ScanTypes
<1>2. /\ header.options \in 0..Len(file) /\ listCapacity \in Nat
      /\ openedAt \in 0..Len(file) /\ dataStartsAt \in 0..Len(file)
  BY DEF Declared
<1>3. ASSUME UNCHANGED <<file, header, listCapacity, openedAt, dataStartsAt>>
      PROVE  Declared'
  BY <1>2, <1>3, KeptIsDeclared DEF HeaderKept
<1>4. ASSUME NEW kinds, Takes("header", kinds)
      PROVE  pos < Len(file) /\ Line.kind \in kinds /\ NextLine \in 1..Len(file)
  BY <1>1, <1>4 DEF Takes, NextLine
<1>5. ASSUME NEW w, TakesKeyword({w})
      PROVE  /\ pos < Len(file) /\ Line.kind = w /\ NextLine \in 1..Len(file)
             /\ KeywordFault(w) = NoFault
  BY <1>4, <1>5 DEF TakesKeyword
<1>6. CASE SkipHeaderLine
  <2>1. header'.nports = header.nports /\ header'.reference = header.reference
        /\ header'.seen = header.seen /\ header'.options = header.options
    BY <1>1, <1>6 DEF SkipHeaderLine, Headers
  <2>. QED
    BY <1>2, <1>6, <2>1, KeptIsDeclared DEF HeaderKept, SkipHeaderLine
<1>7. CASE TakeOptionLine
  <2>1. header'.nports = header.nports /\ header'.reference = header.reference
        /\ header'.seen = header.seen /\ header'.options = NextLine
    BY <1>1, <1>7 DEF TakeOptionLine, Headers
  <2>2. NextLine \in 0..Len(file)
    BY <1>1, <1>4, <1>7 DEF TakeOptionLine
  <2>. QED
    BY <1>2, <1>7, <2>1, <2>2, KeptIsDeclared DEF HeaderKept, TakeOptionLine
<1>8. CASE RejectOptionLine \/ IgnoreOptionLine \/ RejectEarlyData \/ RejectKeyword
           \/ MissNetworkData \/ SkipReferenceLine \/ RejectReference
           \/ SkipInformationLine \/ EndInformation \/ RejectInformation
  <2>1. UNCHANGED <<file, header, listCapacity, openedAt, dataStartsAt>>
    BY <1>8
       DEF RejectOptionLine, IgnoreOptionLine, RejectEarlyData, RejectKeyword,
           MissNetworkData, SkipReferenceLine, RejectReference, SkipInformationLine,
           EndInformation, RejectInformation, FailHeader
  <2>. QED
    BY <1>3, <2>1
<1>9. CASE ApplyKeyword
  <2>1. /\ pos < Len(file) /\ KeywordFault(Line.kind) = NoFault
        /\ Line.kind \in {"Version", "NumberOfPorts", "TwoPortDataOrder", "MatrixFormat"}
                         \cup Counts
        /\ header' = Applied(Line.kind)
        /\ UNCHANGED <<file, listCapacity, openedAt, dataStartsAt>>
    BY <1>4, <1>9 DEF ApplyKeyword, TakesKeyword
  <2>2. CASE Line.kind = "NumberOfPorts"
    <3>1. ClaimFault("NumberOfPorts") = NoFault /\ ArgumentFault("NumberOfPorts") = NoFault
      BY <2>1, <2>2 DEF KeywordFault, NoFault
    <3>2. "NumberOfPorts" \notin header.seen
      BY <3>1 DEF ClaimFault, NoFault
    <3>3. header.nports = None /\ header.reference = <<>>
      <4>1. header.nports = None
        BY <3>2 DEF Declared
      <4>2. header.reference \in Seq(AllPlaces)
        BY <1>1 DEF Headers
      <4>3. Len(header.reference) \in Nat
        BY <4>2
      <4>. QED
        BY <4>1, <4>3 DEF Declared, None
    <3>4. ValuesPerPoint(Line.count) # None
      BY <3>1 DEF ArgumentFault, PortsFault, NoFault
    <3>5. header' = [Claimed EXCEPT !.nports = Line.count]
      BY <2>1, <2>2 DEF Applied
    <3>6. /\ header'.nports = Line.count /\ header'.reference = <<>>
          /\ "NumberOfPorts" \in header'.seen /\ header'.options = header.options
      BY <1>1, <2>2, <3>3, <3>5 DEF Claimed, Headers
    <3>7. PICK k : k = Line.count
      OBVIOUS
    <3>8. header'.nports = k /\ ValuesPerPoint(k) # None
      BY <3>4, <3>6, <3>7
    <3>. QED
      BY <1>2, <2>1, <3>6, <3>8 DEF Declared, ValuesPerPoint, Fits
  <2>3. CASE Line.kind # "NumberOfPorts"
    <3>1. /\ header'.nports = header.nports /\ header'.reference = header.reference
          /\ header.seen \subseteq header'.seen /\ header'.options = header.options
      <4>1. /\ Claimed.nports = header.nports /\ Claimed.reference = header.reference
            /\ header.seen \subseteq Claimed.seen /\ Claimed.options = header.options
            /\ Claimed \in [DOMAIN header -> {Claimed[f] : f \in DOMAIN header}]
        BY <1>1 DEF Claimed, Headers
      <4>2. \/ header' = Claimed
            \/ header' = [Claimed EXCEPT !.nfreqs = Line.count]
            \/ header' = [Claimed EXCEPT !.nnoise = Line.count, !.nnoiseAt = NextLine]
            \/ header' = [Claimed EXCEPT !.twoPortOrder = Line.arg]
            \/ header' = [Claimed EXCEPT !.matrixFormat = Line.arg]
        BY <2>1, <2>3 DEF Applied, Counts
      <4>. QED
        BY <1>1, <4>1, <4>2 DEF Claimed, Headers
    <3>. QED
      BY <1>2, <2>1, <3>1, KeptIsDeclared DEF HeaderKept
  <2>. QED
    BY <2>2, <2>3
<1>10. ASSUME header' = Claimed
       PROVE  /\ header'.nports = header.nports /\ header'.reference = header.reference
              /\ header.seen \subseteq header'.seen /\ header'.options = header.options
  BY <1>1, <1>10 DEF Claimed, Headers
<1>11. CASE TakeNetworkData
  <2>1. NextLine \in 0..Len(file)
    <3>1. TakesKeyword({"NetworkData"})
      BY <1>11 DEF TakeNetworkData
    <3>2. NextLine \in 1..Len(file)
      BY <1>5, <3>1
    <3>. QED
      BY <1>1, <3>2
  <2>. QED
    BY <1>2, <1>10, <1>11, <2>1, KeptIsDeclared DEF TakeNetworkData, HeaderKept
<1>12. CASE BeginInformation
  <2>1. NextLine \in 0..Len(file)
    <3>1. TakesKeyword({"BeginInformation"})
      BY <1>12 DEF BeginInformation
    <3>2. NextLine \in 1..Len(file)
      BY <1>5, <3>1
    <3>. QED
      BY <1>1, <3>2
  <2>. QED
    BY <1>2, <1>10, <1>12, <2>1, KeptIsDeclared DEF BeginInformation, HeaderKept
<1>13. CASE BeginReference
  <2>1. /\ pos < Len(file) /\ Line.kind = "Reference" /\ NextLine \in 1..Len(file)
        /\ KeywordFault("Reference") = NoFault
    BY <1>5, <1>13 DEF BeginReference
  <2>2. ClaimFault("Reference") = NoFault /\ ArgumentFault("Reference") = NoFault
    BY <2>1 DEF KeywordFault, NoFault
  <2>3. header.nports # None /\ header.nports \in Nat
    BY <1>1, <2>2 DEF ClaimFault, NeedsPorts, NoFault, Headers, Counted
  <2>4. ~(Len(Line.v) > header.nports) /\ Len(Line.v) \in Nat
    <3>1. ListFault = NoFault \/ ListFault # NoFault
      OBVIOUS
    <3>2. Len(Line.v) \in Nat
      BY <2>1, LineIsTyped DEF IInv
    <3>. QED
      BY <2>2, <3>2 DEF ArgumentFault, Counts, NoFault
  <2>5. /\ listCapacity' = header.nports /\ list' = Places(NextLine) /\ openedAt' = NextLine
        /\ UNCHANGED <<file, dataStartsAt>>
        /\ IF ListIsFull(list', header.nports)
           THEN header' = [Claimed EXCEPT !.reference = list']
           ELSE header' = Claimed
    BY <1>13 DEF BeginReference
  <2>6. Len(list') = Len(Line.v)
    <3>1. PICK len \in Nat : len = Len(Line.v)
      BY <2>4
    <3>2. list' = [c \in 1..len |-> <<NextLine, c>>]
      BY <2>5, <3>1 DEF Places, Line
    <3>. QED
      BY <3>1, <3>2
  <2>7. NextLine \in 0..Len(file)
    BY <1>1, <2>1
  <2>8. CASE ListIsFull(list', header.nports)
    <3>1. Len(list') = header.nports
      BY <2>3, <2>4, <2>6, <2>8 DEF ListIsFull
    <3>2. header' = [Claimed EXCEPT !.reference = list']
      BY <2>5, <2>8
    <3>3. /\ header'.nports = header.nports /\ header.seen \subseteq header'.seen
          /\ header'.options = header.options /\ header'.reference = list'
      BY <1>1, <3>2 DEF Claimed, Headers
    <3>4. header' \in Headers
      BY HeaderSteps, <1>13 DEF IInv, HeaderNext, HeaderOutcome
    <3>5. PICK values : values = list'
      OBVIOUS
    <3>. QED
      BY <1>2, <2>3, <2>5, <2>7, <3>1, <3>3, <3>4, <3>5, ListIsDeclared
  <2>9. CASE ~ListIsFull(list', header.nports)
    <3>1. header' = Claimed
      BY <2>5, <2>9
    <3>. QED
      BY <1>2, <1>10, <2>3, <2>5, <2>7, <3>1, KeptIsDeclared DEF HeaderKept
  <2>. QED
    BY <2>8, <2>9
<1>14. CASE ExtendReference
  <2>1. /\ pos < Len(file) /\ NextLine \in 1..Len(file)
        /\ Len(list) + Len(Line.v) <= header.nports
        /\ list' = list \o Places(NextLine)
        /\ IF ListIsFull(list', header.nports)
           THEN header' = [header EXCEPT !.reference = list'] ELSE header' = header
        /\ UNCHANGED <<file, listCapacity, openedAt, dataStartsAt>>
    BY <1>1, <1>14 DEF ExtendReference, Takes, NextLine
  <2>2. CASE ListIsFull(list', header.nports)
    <3>1. Len(Line.v) \in Nat /\ Len(list) \in Nat
      BY <1>1, <2>1, LineIsTyped DEF IInv
    <3>2. Places(NextLine) \in Seq(AllPlaces) /\ Len(Places(NextLine)) = Len(Line.v)
      <4>1. PICK len \in Nat : len = Len(Line.v)
        BY <3>1
      <4>2. Places(NextLine) = [c \in 1..len |-> <<NextLine, c>>]
        BY <4>1 DEF Places, Line
      <4>3. Len(Places(NextLine)) = len
        BY <4>2
      <4>. QED
        BY <2>1, <4>1, <4>3, PlacesAreTyped DEF IInv
    <3>3. Len(list') = Len(list) + Len(Line.v)
      BY <1>1, <2>1, <3>2, ConcatProperties
    <3>4. header.nports \in Int
      BY <1>1 DEF Headers, Counted, None
    <3>5. Len(list') = header.nports
      BY <2>1, <2>2, <3>1, <3>3, <3>4 DEF ListIsFull
    <3>6. header' = [header EXCEPT !.reference = list']
      BY <2>1, <2>2
    <3>7. /\ header'.nports = header.nports /\ header.seen \subseteq header'.seen
          /\ header'.options = header.options /\ header'.reference = list'
      BY <1>1, <3>6 DEF Headers
    <3>8. header' \in Headers
      BY HeaderSteps, <1>14 DEF IInv, HeaderNext, HeaderOutcome
    <3>9. PICK values : values = list'
      OBVIOUS
    <3>. QED
      BY <1>2, <2>1, <3>5, <3>7, <3>8, <3>9, ListIsDeclared
  <2>3. CASE ~ListIsFull(list', header.nports)
    BY <1>3, <2>1, <2>3
  <2>. QED
    BY <2>2, <2>3
<1>. QED
  BY <1>6, <1>7, <1>8, <1>9, <1>11, <1>12, <1>13, <1>14 DEF HeaderNext
-----------------------------------------------------------------------------
(* How many values a point of the header's shape has: more than the matrix   *)
(* it yields has entries.                                                    *)
LEMMA PointIsLarger ==
    ASSUME Declared, header.nports \in Nat \ {0}
    PROVE  PointSize \in Nat /\ n * n \in Nat /\ n * n < PointSize
<1>1. PICK ports \in Nat \ {0} : ports = header.nports
  OBVIOUS
<1>2. PICK square \in Nat : square = ports * ports
  OBVIOUS
<1>3. ValuesPerPoint(ports) # None
  BY <1>1 DEF Declared, None
<1>4. ValuesPerPoint(ports) = square * 2 + 1
  BY <1>2, <1>3 DEF ValuesPerPoint
<1>5. TriangleValues(ports) = square + ports + 1
  BY <1>2 DEF TriangleValues
<1>6. PointSize = square * 2 + 1 \/ PointSize = square + ports + 1
  BY <1>1, <1>4, <1>5 DEF PointSize, n
<1>. QED
  BY <1>1, <1>2, <1>6 DEF n

(* Points of a size, and what is left over, in what has been spent.          *)
LEMMA SpentBounds ==
    ASSUME NEW count \in Nat, NEW size \in Nat, NEW square \in Nat, square < size,
           NEW rest \in Nat, NEW bound \in Int, count * size + rest <= bound
    PROVE  count <= bound /\ count * square <= bound
<1>1. PICK d \in Nat : size = square + 1 + d
  <2>1. size - square - 1 \in Nat /\ size = square + 1 + (size - square - 1)
    OBVIOUS
  <2>. QED
    BY <2>1
<1>2. count * size = count * square + count + count * d
  BY <1>1
<1>3. count * square >= 0 /\ count * d >= 0
  OBVIOUS
<1>4. PICK a \in Nat : a = count * square
  BY <1>3
<1>5. PICK b \in Nat : b = count * d
  BY <1>3
<1>. QED
  BY <1>2, <1>4, <1>5

(* Moving the scan over whole lines spends nothing.                          *)
LEMMA MovingSpendsNothing ==
    ASSUME IInv, BudgetInv, pc \in Sections, pc' \in Sections, pos' \in pos..Len(file),
           UNCHANGED <<input, header, block, freqHz, s, capacity>>
    PROVE  SpentInv' /\ DataFitsTheFile'
<1>1. file \in Seq(Lines) /\ Len(file) \in Nat /\ pos \in 0..Len(file)
  BY DEF IInv, ScanTypes
<1>2. PICK q : q = pos'
  OBVIOUS
<1>3. /\ Before(file)[pos] \in Nat /\ Before(file)[q] \in Nat
      /\ Before(file)[pos] <= Before(file)[q]
  BY <1>1, <1>2, TokensAddUp
<1>4. PICK spent : spent = Len(freqHz) * PointSize + Len(block)
  OBVIOUS
<1>5. spent <= Before(file)[pos]
  BY <1>4 DEF BudgetInv, SpentInv, Reached, Behind, Sections
<1>6. (Len(freqHz) * PointSize + Len(block))' = spent
  BY <1>4 DEF PointSize, Full, n, ValuesPerPoint, TriangleValues, Fits
<1>7. Reached' = Before(file)[q]
  BY <1>2 DEF Reached, Sections, input, Before
<1>8. PICK total : total = Before(file)[pos] /\ total \in Nat
  BY <1>3
<1>9. header.nports \in Nat \ {0} /\ Len(freqHz) \in Nat /\ Len(block) \in Nat
  BY DEF IInv, ControlInv, ScanTypes, Frozen
<1>10. spent \in Int
  <2>1. PointSize \in Nat
    <3>1. Declared
      BY DEF BudgetInv
    <3>. QED
      BY <1>9, <3>1, PointIsLarger, Zenon
  <2>. QED
    BY <1>4, <1>9, <2>1
<1>11. spent <= Before(file)[q]
  BY <1>3, <1>5, <1>10
<1>12. SpentInv'
  BY <1>6, <1>7, <1>11 DEF SpentInv
<1>13. DataFitsTheFile'
  BY DEF BudgetInv, DataFitsTheFile, input
<1>. QED
  BY <1>12, <1>13

(* What is spent when the data begins: nothing.                              *)
LEMMA PlanSpendsNothing ==
    ASSUME IInv, BudgetInv, FreezePlan
    PROVE  SpentInv' /\ DataFitsTheFile'
<1>1. /\ pc = "plan" /\ PlanFault = NoFault /\ pc' = "network" /\ capacity' = Capacity
      /\ UNCHANGED <<input, pos, header, block, freqHz, s>>
  BY DEF FreezePlan, headerVars
<1>2. freqHz = <<>> /\ s = <<>> /\ block = <<>> /\ fileValues \in Nat
  BY <1>1 DEF IInv, ControlInv, HeaderLoops, BudgetInv
<1>3. header.nports \in Nat \ {0} /\ header.nfreqs \in Nat \ {0}
  BY <1>1, PlanPasses DEF Frozen
<1>4. PointSize \in Nat
  <2>1. Declared
    BY DEF BudgetInv
  <2>. QED
    BY <1>3, <2>1, PointIsLarger, Zenon
<1>5. SpentInv'
  <2>1. file \in Seq(Lines) /\ pos \in 0..Len(file)
    BY DEF IInv, ScanTypes
  <2>2. Before(file)[pos] \in Nat
    BY <2>1, TokensAddUp
  <2>3. PointSize' = PointSize
    BY <1>1 DEF PointSize, Full, n, ValuesPerPoint, TriangleValues, Fits
  <2>4. Reached' = Before(file)[pos]
    BY <1>1 DEF Reached, input, Before
  <2>5. Len(freqHz') = 0 /\ Len(block') = 0
    BY <1>1, <1>2
  <2>6. Len(freqHz') * PointSize' + Len(block') = 0
    BY <1>4, <2>3, <2>5
  <2>. QED
    BY <2>2, <2>4, <2>6 DEF SpentInv
<1>6. DataFitsTheFile'
  <2>1. PICK sweep : sweep = Lesser(header.nfreqs, fileValues)
    OBVIOUS
  <2>2. sweep <= fileValues
    BY <1>2, <1>3, <2>1 DEF Lesser
  <2>3. Lesser(sweep * n * n, fileValues) <= fileValues
    <3>1. PICK total : total = sweep * n * n
      OBVIOUS
    <3>2. sweep \in Nat /\ n \in Nat
      BY <1>2, <1>3, <2>1 DEF Lesser, n
    <3>3. total \in Int
      BY <3>1, <3>2
    <3>. QED
      BY <1>2, <3>1, <3>3 DEF Lesser
  <2>4. capacity'.freqHz <= fileValues /\ capacity'.s <= fileValues
    BY <1>1, <2>1, <2>2, <2>3 DEF Capacity
  <2>5. Len(freqHz') = 0 /\ Len(s') = 0
    BY <1>1, <1>2
  <2>. QED
    BY <1>1, <1>2, <2>4, <2>5 DEF DataFitsTheFile, input
<1>. QED
  BY <1>5, <1>6

(* A token on the current line.                                              *)
LEMMA TokenIsBefore ==
    ASSUME IInv, pc = "tokens"
    PROVE  /\ file \in Seq(Lines) /\ pos \in 1..Len(file) /\ col \in Nat
           /\ col + 1 \in 1..Len(file[pos].v)
           /\ Before(file)[pos - 1] \in Nat /\ Len(file[pos].v) \in Nat
           /\ Before(file)[pos] = Before(file)[pos - 1] + Len(file[pos].v)
           /\ Before(file)[pos] <= TokensIn(file) /\ TokensIn(file) \in Nat
<1>1. /\ pos \in 1..Len(file) /\ col < Len(file[pos].v) /\ col \in Nat /\ file \in Seq(Lines)
      /\ Len(file) \in Nat
  BY DEF IInv, ControlInv, ScanTypes
<1>2. file[pos] \in Lines
  BY <1>1, ElementOfSeq
<1>3. Len(file[pos].v) \in Nat
  BY <1>2 DEF Lines
<1>4. col + 1 \in 1..Len(file[pos].v)
  BY <1>1, <1>3
<1>5. pos - 1 \in 0..Len(file) /\ pos \in 0..Len(file) /\ Len(file) \in 0..Len(file)
      /\ pos \in 0..Len(file)
  BY <1>1
<1>6. /\ Before(file) \in [0..Len(file) -> Nat]
      /\ TokensIn(file) = Before(file)[Len(file)]
      /\ Before(file)[pos] = Before(file)[pos - 1] + Len(file[pos].v)
      /\ Before(file)[pos] <= Before(file)[Len(file)]
  BY <1>1, <1>5, TokensAddUp
<1>7. Before(file)[pos - 1] \in Nat /\ Before(file)[Len(file)] \in Nat
  BY <1>5, <1>6
<1>. QED
  BY <1>1, <1>3, <1>4, <1>6, <1>7

(* Going on spends the token, on this line or at its end.                    *)
LEMMA AdvanceReaches ==
    ASSUME IInv, pc = "tokens", Advance
    PROVE  Reached' = Reached + 1 /\ Reached \in Nat /\ Reached + 1 <= TokensIn(file)
<1>1. /\ file \in Seq(Lines) /\ pos \in 1..Len(file) /\ col \in Nat
      /\ col + 1 \in 1..Len(file[pos].v)
      /\ Before(file)[pos - 1] \in Nat /\ Len(file[pos].v) \in Nat
      /\ Before(file)[pos] = Before(file)[pos - 1] + Len(file[pos].v)
      /\ Before(file)[pos] <= TokensIn(file) /\ TokensIn(file) \in Nat
  BY TokenIsBefore
<1>2. /\ col' = col + 1 /\ pos' = pos /\ file' = file
      /\ pc' = IF col + 1 = Len(file[pos].v) THEN "network" ELSE "tokens"
  BY DEF Advance, input
<1>3. Reached = Before(file)[pos - 1] + col
  BY DEF Reached
<1>4. Reached' = Before(file)[pos - 1] + (col + 1)
  <2>1. CASE pc' = "tokens"
    BY <1>2, <2>1 DEF Reached, Before
  <2>2. CASE pc' # "tokens"
    <3>1. Reached' = Before(file)[pos] /\ col + 1 = Len(file[pos].v)
      BY <1>2, <2>2 DEF Reached, Before
    <3>. QED
      BY <1>1, <3>1
  <2>. QED
    BY <2>1, <2>2
<1>5. PICK before \in Nat, len \in Nat, all \in Nat :
         before = Before(file)[pos - 1] /\ len = Len(file[pos].v) /\ all = TokensIn(file)
  BY <1>1
<1>6. before + len <= all /\ col + 1 <= len
  BY <1>1, <1>5
<1>7. before + col \in Nat /\ before + (col + 1) = (before + col) + 1
      /\ (before + col) + 1 <= all
  BY <1>1, <1>6
<1>. QED
  BY <1>3, <1>4, <1>5, <1>7

(* A token taken, with or without completing its point.                      *)
LEMMA TokenIsSpent ==
    ASSUME IInv, BudgetInv, PushToken \/ AddPoint
    PROVE  SpentInv' /\ DataFitsTheFile'
<1>1. /\ pc = "tokens" /\ Advance
      /\ UNCHANGED <<file, fileValues, hint, header, capacity>>
  BY DEF PushToken, AddPoint, Advance, input, headerVars
<1>2. Reached' = Reached + 1 /\ Reached \in Nat /\ Reached + 1 <= TokensIn(file)
  BY <1>1, AdvanceReaches
<1>3. /\ block \in Seq(AllPlaces) /\ Len(block) \in Nat
      /\ freqHz \in Seq(Int) /\ Len(freqHz) \in Nat
      /\ header.nports \in Nat \ {0}
  BY <1>1 DEF IInv, ScanTypes, ControlInv, Frozen
<1>4. Len(Extended) = Len(block) + 1
  BY <1>3, AppendProperties DEF Extended
<1>5. PICK size \in Nat, square \in Nat : size = PointSize /\ square = n * n /\ square < size
  <2>1. Declared
    BY DEF BudgetInv
  <2>. QED
    BY <1>3, <2>1, PointIsLarger, Zenon
<1>6. Len(freqHz) * size + Len(block) <= Reached
  BY <1>1, <1>5 DEF BudgetInv, SpentInv, Behind
<1>7. PointSize' = size /\ n' = n
  BY <1>1, <1>5 DEF PointSize, Full, n, ValuesPerPoint, TriangleValues, Fits
<1>8. PICK spent \in Nat : spent = Len(freqHz) * size
  BY <1>3
<1>9. Len(freqHz') * size + Len(block') = spent + Len(block) + 1 /\ Len(freqHz') \in Nat
  <2>1. CASE PushToken
    <3>1. freqHz' = freqHz /\ Len(block') = Len(block) + 1
      BY <1>4, <2>1 DEF PushToken
    <3>. QED
      BY <1>3, <1>8, <3>1
  <2>2. CASE AddPoint
    <3>1. /\ Len(Extended) = size /\ block' = <<>>
          /\ freqHz' = Append(freqHz, Value(Extended[1]))
      BY <1>5, <2>2 DEF AddPoint
    <3>2. Value(Extended[1]) \in Int
      BY <1>1, TokenExtends
    <3>3. Len(freqHz') = Len(freqHz) + 1 /\ Len(block') = 0
      BY <1>3, <3>1, <3>2, AppendProperties
    <3>4. (Len(freqHz) + 1) * size = spent + size
      BY <1>3, <1>8
    <3>5. Len(freqHz') * size = spent + size
      BY <3>3, <3>4
    <3>6. size = Len(block) + 1
      BY <1>4, <3>1
    <3>. QED
      BY <1>3, <3>3, <3>5, <3>6
  <2>. QED
    BY <2>1, <2>2
<1>10. Len(freqHz') * size + Len(block') <= Reached'
  BY <1>2, <1>3, <1>6, <1>8, <1>9
<1>11. SpentInv'
  BY <1>7, <1>10 DEF SpentInv
<1>12. IInv'
  BY <1>1, PushTokenPreserves, AddPointPreserves
<1>13. Len(block') \in Nat
  BY <1>12 DEF IInv, ScanTypes
<1>14. PICK count \in Nat, rest \in Nat, bound \in Nat :
          count = Len(freqHz') /\ rest = Len(block') /\ bound = Reached'
  BY <1>2, <1>9, <1>13
<1>15. count <= bound /\ count * square <= bound
  BY <1>5, <1>10, <1>14, SpentBounds
<1>16. fileValues \in Nat /\ TokensIn(file) \in Int /\ TokensIn(file) <= fileValues
  BY <1>1, TokenIsBefore DEF BudgetInv
<1>17. bound <= fileValues
  BY <1>2, <1>14, <1>16
<1>18. Len(s') <= fileValues
  <2>1. CASE freqHz' = <<>>
    <3>1. s' = <<>>
      BY <1>12, <2>1 DEF IInv, ShapeInv
    <3>2. Len(s') = 0
      BY <3>1
    <3>. QED
      BY <1>16, <3>2
  <2>2. CASE freqHz' # <<>>
    <3>1. Len(s') = Len(freqHz') * (header.nports * header.nports)
      BY <1>1, <1>12, <2>2 DEF IInv, ShapeInv
    <3>2. Len(s') = count * square
      BY <1>5, <1>14, <3>1 DEF n
    <3>3. PICK entries \in Nat : entries = count * square
      BY <1>14, <1>5
    <3>. QED
      BY <1>15, <1>16, <1>17, <3>2, <3>3
  <2>. QED
    BY <2>1, <2>2
<1>19. Len(freqHz') <= fileValues
  BY <1>14, <1>15, <1>16, <1>17
<1>20. DataFitsTheFile'
  BY <1>1, <1>18, <1>19 DEF BudgetInv, DataFitsTheFile
<1>. QED
  BY <1>11, <1>20

(* The first token of a line is the first after the lines before it.         *)
LEMMA LineSpendsNothing ==
    ASSUME IInv, BudgetInv, TakeDataLine
    PROVE  SpentInv' /\ DataFitsTheFile'
<1>1. /\ pc = "network" /\ pos < Len(file) /\ pos' = pos + 1 /\ pc' = "tokens" /\ col' = 0
      /\ UNCHANGED <<input, header, block, freqHz, s, capacity>>
  BY DEF TakeDataLine, Takes, NextLine, headerVars
<1>2. file \in Seq(Lines) /\ Len(file) \in Nat /\ pos \in 0..Len(file)
  BY DEF IInv, ScanTypes
<1>3. Before(file)[pos] \in Nat
  BY <1>2, TokensAddUp
<1>4. Reached = Before(file)[pos]
  BY <1>1 DEF Reached
<1>5. Reached' = Before(file)[pos]
  <2>1. pos' - 1 = pos
    BY <1>1, <1>2
  <2>2. Reached' = Before(file)[pos' - 1] + 0
    BY <1>1 DEF Reached, input, Before
  <2>. QED
    BY <1>3, <2>1, <2>2
<1>6. SpentInv'
  <2>1. PICK spent : spent = Len(freqHz) * PointSize + Len(block)
    OBVIOUS
  <2>2. spent <= Reached
    BY <1>1, <2>1 DEF BudgetInv, SpentInv, Behind, Sections
  <2>3. (Len(freqHz) * PointSize + Len(block))' = spent
    BY <1>1, <2>1 DEF PointSize, Full, n, ValuesPerPoint, TriangleValues, Fits
  <2>. QED
    BY <1>4, <1>5, <2>2, <2>3 DEF SpentInv
<1>7. DataFitsTheFile'
  BY <1>1 DEF BudgetInv, DataFitsTheFile, input
<1>. QED
  BY <1>6, <1>7

(* The budget is kept: one step per action.                                  *)
LEMMA StepKeepsBudget ==
    ASSUME IInv, BudgetInv, [Next]_vars
    PROVE  BudgetInv'
<1>1. ASSUME UNCHANGED file
      PROVE  (TokensIn(file) <= fileValues)' <=> TokensIn(file) <= fileValues'
  BY <1>1 DEF TokensIn
<1>2. UNCHANGED input
  BY HeaderSteps
     DEF IInv, Next, ReadHeader, HeaderOutcome, FreezePlan, RejectPlan, TakeDataLine,
         PushToken, AddPoint, Advance, RejectToken, Fail, FailHeader, SkipSectionLine, BeginNoise,
         EndFile, RejectSectionKeyword, RejectContent, AddNoisePoint, RejectNoiseLine,
         ReachEnd, Done, vars
<1>3. fileValues' \in Nat /\ (TokensIn(file) <= fileValues)'
  BY <1>1, <1>2 DEF BudgetInv, input
<1>4. SUFFICES Declared' /\ DataFitsTheFile' /\ SpentInv'
  BY <1>3 DEF BudgetInv
<1>5. ASSUME UNCHANGED headerVars PROVE Declared'
  <2>1. header' = header /\ header.options \in 0..Len(file)
    BY <1>5 DEF headerVars, BudgetInv, Declared
  <2>. QED
    BY <1>2, <1>5, <2>1, KeptIsDeclared DEF headerVars, input, HeaderKept, BudgetInv, Declared
<1>6. ASSUME NEW kind, NEW line, Fail(kind, line)
      PROVE  Declared' /\ DataFitsTheFile' /\ SpentInv'
  <2>1. UNCHANGED <<input, headerVars, dataVars>> /\ pc' = "done"
    BY <1>6 DEF Fail, FailHeader, Answer
  <2>. QED
    BY <1>5, <2>1
       DEF BudgetInv, DataFitsTheFile, SpentInv, Behind, Sections, dataVars, points, input
<1>7. CASE ReadHeader
  <2>1. HeaderOutcome /\ UNCHANGED dataVars /\ HeaderNext
    BY <1>7, HeaderSteps DEF IInv, ReadHeader
  <2>2. Declared'
    BY <2>1, DeclaredIsKept DEF BudgetInv
  <2>3. SpentInv'
    BY <2>1 DEF HeaderOutcome, HeaderLoops, SpentInv, Behind, Sections
  <2>4. DataFitsTheFile'
    BY <1>2, <2>1 DEF BudgetInv, DataFitsTheFile, dataVars, points, input
  <2>. QED
    BY <2>2, <2>3, <2>4
<1>8. CASE FreezePlan
  <2>1. UNCHANGED headerVars
    BY <1>8 DEF FreezePlan
  <2>. QED
    BY <1>5, <1>8, <2>1, PlanSpendsNothing
<1>9. CASE RejectPlan \/ RejectToken \/ RejectSectionKeyword \/ RejectContent \/ RejectNoiseLine
  <2>1. \E kind, line : Fail(kind, line)
    BY <1>9 DEF RejectPlan, RejectToken, RejectSectionKeyword, RejectContent, RejectNoiseLine
  <2>. QED
    BY <1>6, <2>1
<1>10. CASE TakeDataLine
  <2>1. UNCHANGED headerVars
    BY <1>10 DEF TakeDataLine
  <2>. QED
    BY <1>5, <1>10, <2>1, LineSpendsNothing
<1>11. CASE PushToken \/ AddPoint
  <2>1. UNCHANGED headerVars
    BY <1>11 DEF PushToken, AddPoint, Advance
  <2>. QED
    BY <1>5, <1>11, <2>1, TokenIsSpent
<1>12. CASE SkipSectionLine \/ BeginNoise \/ EndFile \/ AddNoisePoint
  <2>1. /\ UNCHANGED <<headerVars, block, freqHz, s, capacity>>
        /\ pc' \in Sections
        /\ \E kinds : \E section \in Sections : Takes(section, kinds)
    BY <1>12
       DEF SkipSectionLine, BeginNoise, EndFile, AddNoisePoint, TakesSectionKeyword,
           Takes, dataVars, points, Sections
  <2>2. PICK kinds : \E section \in Sections : Takes(section, kinds)
    BY <2>1
  <2>3. pc \in Sections /\ pos' = pos + 1 /\ pos < Len(file)
    BY <2>2 DEF Takes, NextLine
  <2>4. pos' \in pos..Len(file)
    BY <2>3 DEF IInv, ScanTypes
  <2>. QED
    BY <1>2, <1>5, <2>1, <2>3, <2>4, MovingSpendsNothing DEF headerVars
<1>13. CASE ReachEnd
  <2>1. CASE \E kind, line : Fail(kind, line)
    BY <1>6, <2>1
  <2>2. CASE pc' = "done" /\ UNCHANGED <<headerVars, points, rows>>
    BY <1>2, <1>5, <2>2
       DEF BudgetInv, DataFitsTheFile, SpentInv, Behind, Sections, points, input
  <2>. QED
    BY <1>13, <2>1, <2>2 DEF ReachEnd, Answer
<1>14. CASE Done \/ UNCHANGED vars
  <2>1. UNCHANGED <<input, pc, pos, headerVars, points>>
    BY <1>14 DEF Done, vars, dataVars
  <2>2. SpentInv'
    BY <2>1
       DEF BudgetInv, SpentInv, Behind, Reached, Before, PointSize, Full, n, ValuesPerPoint,
           TriangleValues, Fits, points, headerVars, input
  <2>3. DataFitsTheFile'
    BY <2>1 DEF BudgetInv, DataFitsTheFile, points, input
  <2>. QED
    BY <1>5, <2>1, <2>2, <2>3
<1>. QED
  BY <1>7, <1>8, <1>9, <1>10, <1>11, <1>12, <1>13, <1>14 DEF Next

(* The budget holds before the first line.                                   *)
LEMMA InitKeepsBudget == Init => BudgetInv
<1>. SUFFICES ASSUME Init PROVE BudgetInv
  OBVIOUS
<1>1. file \in Seq(Lines) /\ Len(file) \in Nat
  BY FilesAssumption DEF Init, HeaderInit
<1>2. TokensIn(file) \in Nat
  <2>1. Len(file) \in 0..Len(file)
    BY <1>1
  <2>. QED
    BY <1>1, <2>1, TokensAddUp
<1>3. PICK slack \in Slacks : fileValues = TokensIn(file) + slack
  BY DEF Init, HeaderInit
<1>4. fileValues \in Nat /\ TokensIn(file) <= fileValues
  BY <1>2, <1>3, SlacksAssumption
<1>5. Declared
  BY <1>1 DEF Init, HeaderInit, Declared
<1>6. DataFitsTheFile /\ SpentInv
  BY <1>4 DEF Init, HeaderInit, DataFitsTheFile, SpentInv, Behind, Sections
<1>. QED
  BY <1>4, <1>5, <1>6 DEF BudgetInv

(* The budget holds in every state.                                          *)
THEOREM BudgetHolds == Spec => []BudgetInv
<1>1. Init => BudgetInv
  BY InitKeepsBudget
<1>2. IInv /\ BudgetInv /\ [Next]_vars => BudgetInv'
  BY StepKeepsBudget
<1>. QED
  BY <1>1, <1>2, Invariance, PTL DEF Spec

(* Nothing a header declares makes NetworkData reserve or hold more than the *)
(* file has room for, whatever the counts and however wide usize is          *)
(* (NetworkData::new, push_line).                                            *)
THEOREM DataAlwaysFits == Spec => []DataFitsTheFile
  BY BudgetHolds, PTL DEF BudgetInv
-----------------------------------------------------------------------------
(* Where a row of a format starts, and how many entries it has.              *)
FirstColumn(format, row) == IF format = "Upper" THEN row ELSE 1
Width(ports, format, row) ==
    CASE format = "Lower" -> row
      [] format = "Upper" -> ports - row + 1
      [] OTHER -> ports

RowsOf(ports, format) ==
    [row \in 1..ports |->
        Row(row, CASE format = "Lower" -> UpFrom(1, row)
                   [] format = "Upper" -> UpFrom(row, ports)
                   [] OTHER -> UpFrom(1, ports))]

(* One row of the file's order.                                              *)
IsWritten(seq, row, first, width) ==
    \A i \in 1..width : seq[i] = <<row, first + i - 1>>

LEMMA RowIsWritten ==
    ASSUME NEW ports \in Nat \ {0}, NEW format, NEW row \in 1..ports
    PROVE  /\ Width(ports, format, row) \in Nat
           /\ FirstColumn(format, row) \in Nat
           /\ RowsOf(ports, format)[row] \in Seq((1..ports) \X (1..ports))
           /\ Len(RowsOf(ports, format)[row]) = Width(ports, format, row)
           /\ IsWritten(RowsOf(ports, format)[row], row,
                        FirstColumn(format, row), Width(ports, format, row))
<1> DEFINE first == FirstColumn(format, row)
           width == Width(ports, format, row)
           cols == CASE format = "Lower" -> UpFrom(1, row)
                     [] format = "Upper" -> UpFrom(row, ports)
                     [] OTHER -> UpFrom(1, ports)
<1>1. first \in 1..ports /\ width \in Nat /\ first + width - 1 <= ports
  BY DEF FirstColumn, Width
<1>2. cols = [i \in 1..width |-> first + i - 1]
  <2>1. CASE format = "Lower"
    BY <2>1 DEF UpFrom, FirstColumn, Width
  <2>2. CASE format = "Upper"
    BY <2>2 DEF UpFrom, FirstColumn, Width
  <2>3. CASE format \notin {"Lower", "Upper"}
    <3>1. cols = UpFrom(1, ports) /\ first = 1 /\ width = ports
      BY <2>3 DEF FirstColumn, Width
    <3>2. ports - 1 + 1 = ports
      OBVIOUS
    <3>. QED
      BY <3>1, <3>2 DEF UpFrom
  <2>. QED
    BY <2>1, <2>2, <2>3
<1>3. RowsOf(ports, format)[row] = Row(row, cols)
  BY DEF RowsOf
<1> HIDE DEF first, width, cols
<1>4. Len(cols) = width /\ \A i \in 1..width : cols[i] = first + i - 1
  BY <1>1, <1>2
<1>5. Row(row, cols) = [i \in 1..width |-> <<row, first + i - 1>>]
  BY <1>4 DEF Row
<1>6. \A i \in 1..width : first + i - 1 \in 1..ports
  BY <1>1
<1>7. Row(row, cols) \in [1..width -> (1..ports) \X (1..ports)]
  BY <1>5, <1>6
<1>8. Row(row, cols) \in Seq((1..ports) \X (1..ports)) /\ Len(Row(row, cols)) = width
  <2>1. Row(row, cols) \in Seq((1..ports) \X (1..ports))
    BY <1>1, <1>7, SeqDef
  <2>2. DOMAIN Row(row, cols) = 1..width
    BY <1>5
  <2>. QED
    BY <1>1, <2>1, <2>2, LenProperties
<1>. QED
  BY <1>1, <1>3, <1>5, <1>8 DEF first, width, IsWritten

(* An entry of the matrix in the file's order, itself or its mirror image.   *)
Names(order, format, row, column) ==
    \E k \in 1..Len(order) :
        \/ order[k] = <<row, column>>
        \/ format \notin {"none", "Full"} /\ order[k] = <<column, row>>

(* The rows of a format, one behind the other, name every entry.             *)
LEMMA RowsNameEveryEntry ==
    ASSUME NEW ports \in Nat \ {0}, NEW format \in MatrixFormats \cup {"none"}
    PROVE  /\ FlattenSeq(RowsOf(ports, format)) \in Seq((1..ports) \X (1..ports))
           /\ \A row, column \in 1..ports :
                 Names(FlattenSeq(RowsOf(ports, format)), format, row, column)
           /\ \E start \in [0..ports -> Nat] :
                 /\ start[0] = 0
                 /\ \A i \in 1..ports : start[i] = start[i - 1] + Width(ports, format, i)
                 /\ Len(FlattenSeq(RowsOf(ports, format))) = start[ports]
<1> DEFINE seqs == RowsOf(ports, format)
           flat == FlattenSeq(seqs)
           places == (1..ports) \X (1..ports)
<1>1. Len(seqs) = ports /\ \A row \in 1..ports : seqs[row] \in Seq(places)
  <2>1. Len(seqs) = ports
    BY DEF RowsOf
  <2>. QED
    BY <2>1, RowIsWritten
<1>2. flat \in Seq(places) /\ \E start \in [0..ports -> Nat] : LaidOut(seqs, start, flat)
  <2>1. PICK q : q = seqs
    OBVIOUS
  <2>2. \A S : (\A i \in 1..ports : q[i] \in Seq(S))
               => /\ FlattenSeq(q) \in Seq(S)
                  /\ \E start \in [0..ports -> Nat] : LaidOut(q, start, FlattenSeq(q))
    BY <1>1, <2>1, FlattenLaysOut
  <2>. QED
    BY <1>1, <2>1, <2>2
<1>3. PICK start \in [0..ports -> Nat] : LaidOut(seqs, start, flat)
  BY <1>2
<1>4. \A row \in 1..ports : Len(seqs[row]) = Width(ports, format, row)
  BY RowIsWritten
<1> HIDE DEF seqs, flat
<1>5. /\ start[0] = 0 /\ Len(flat) = start[ports]
      /\ \A i \in 1..ports : start[i] = start[i - 1] + Width(ports, format, i)
      /\ \A i \in 1..ports : start[i] <= Len(flat)
      /\ \A i \in 1..ports : Holds(flat, start[i - 1], seqs[i])
  BY <1>1, <1>3, <1>4 DEF LaidOut
<1>6. ASSUME NEW row \in 1..ports, NEW i \in 1..Width(ports, format, row)
      PROVE  \E k \in 1..Len(flat) : flat[k] = <<row, FirstColumn(format, row) + i - 1>>
  <2>1. /\ Width(ports, format, row) \in Nat
        /\ Len(seqs[row]) = Width(ports, format, row)
        /\ seqs[row][i] = <<row, FirstColumn(format, row) + i - 1>>
    <3>1. IsWritten(seqs[row], row, FirstColumn(format, row), Width(ports, format, row))
      BY RowIsWritten DEF seqs
    <3>2. Width(ports, format, row) \in Nat
      BY RowIsWritten
    <3>. QED
      BY <1>4, <3>1, <3>2 DEF IsWritten
  <2>2. start[row - 1] \in Nat /\ start[row] <= Len(flat)
        /\ start[row] = start[row - 1] + Width(ports, format, row)
        /\ Len(flat) \in Nat
    BY <1>2, <1>5
  <2>3. start[row - 1] + i \in 1..Len(flat)
    BY <2>1, <2>2, SMTT(30)
  <2>4. flat[start[row - 1] + i] = seqs[row][i]
    BY <1>5, <2>1 DEF Holds
  <2>. QED
    BY <2>1, <2>3, <2>4
<1>7. ASSUME NEW row \in 1..ports, NEW column \in 1..ports,
             column - FirstColumn(format, row) + 1 \in 1..Width(ports, format, row)
      PROVE  \E k \in 1..Len(flat) : flat[k] = <<row, column>>
  <2>1. FirstColumn(format, row) \in Nat
    BY RowIsWritten
  <2>2. FirstColumn(format, row) + (column - FirstColumn(format, row) + 1) - 1 = column
    BY <2>1
  <2>3. \E k \in 1..Len(flat) :
           flat[k] = <<row, FirstColumn(format, row)
                              + (column - FirstColumn(format, row) + 1) - 1>>
    BY <1>6, <1>7
  <2>. QED
    BY <2>2, <2>3
<1>8. ASSUME NEW row \in 1..ports, NEW column \in 1..ports
      PROVE  Names(flat, format, row, column)
  <2>1. CASE format = "Lower"
    <3>1. CASE column <= row
      <4>1. column - FirstColumn(format, row) + 1 \in 1..Width(ports, format, row)
        BY <2>1, <3>1 DEF FirstColumn, Width
      <4>. QED
        BY <1>7, <4>1 DEF Names
    <3>2. CASE row < column
      <4>1. row - FirstColumn(format, column) + 1 \in 1..Width(ports, format, column)
        BY <2>1, <3>2 DEF FirstColumn, Width
      <4>2. \E k \in 1..Len(flat) : flat[k] = <<column, row>>
        BY <1>7, <4>1
      <4>. QED
        BY <2>1, <4>2 DEF Names
    <3>. QED
      BY <3>1, <3>2
  <2>2. CASE format = "Upper"
    <3>1. CASE row <= column
      <4>1. column - FirstColumn(format, row) + 1 \in 1..Width(ports, format, row)
        BY <2>2, <3>1 DEF FirstColumn, Width
      <4>. QED
        BY <1>7, <4>1 DEF Names
    <3>2. CASE column < row
      <4>1. row - FirstColumn(format, column) + 1 \in 1..Width(ports, format, column)
        BY <2>2, <3>2 DEF FirstColumn, Width
      <4>2. \E k \in 1..Len(flat) : flat[k] = <<column, row>>
        BY <1>7, <4>1
      <4>. QED
        BY <2>2, <4>2 DEF Names
    <3>. QED
      BY <3>1, <3>2
  <2>3. CASE format \notin {"Lower", "Upper"}
    <3>1. column - FirstColumn(format, row) + 1 \in 1..Width(ports, format, row)
      BY <2>3 DEF FirstColumn, Width
    <3>. QED
      BY <1>7, <3>1 DEF Names
  <2>. QED
    BY <2>1, <2>2, <2>3
<1>. QED
  BY <1>2, <1>5, <1>8 DEF flat, seqs

(* Twice the number of pairs on the first rows of a format.                  *)
Twice(ports, format, i) ==
    CASE format = "Lower" -> i * i + i
      [] format = "Upper" -> 2 * (ports * i) - i * i + i
      [] OTHER -> 2 * (ports * i)

(* So many rows are written before each.                                     *)
LEMMA RowsStart ==
    ASSUME NEW ports \in Nat \ {0}, NEW format \in MatrixFormats \cup {"none"},
           NEW start \in [0..ports -> Nat], start[0] = 0,
           \A i \in 1..ports : start[i] = start[i - 1] + Width(ports, format, i)
    PROVE  \A i \in 0..ports : 2 * start[i] = Twice(ports, format, i)
<1> DEFINE twice(i) == Twice(ports, format, i)
           T == {i \in 0..ports : 2 * start[i] = twice(i)}
<1>1. 0 \in T
  BY DEF Twice
<1>2. ASSUME NEW i \in 1..ports, i - 1 \in T
      PROVE  i \in T
  <2>1. start[i] = start[i - 1] + Width(ports, format, i)
        /\ start[i] \in Nat /\ start[i - 1] \in Nat /\ i \in 0..ports
        /\ 2 * start[i - 1] = twice(i - 1)
    BY <1>2
  <2>0. PICK a \in Nat, b \in Nat : a = start[i - 1] /\ b = start[i]
    BY <2>1
  <2>2. PICK square \in Int, product \in Int : square = i * i /\ product = ports * i
    OBVIOUS
  <2>3. (i - 1) * (i - 1) = square - 2 * i + 1 /\ ports * (i - 1) = product - ports
    BY <2>2
  <2>4. CASE format = "Lower"
    <3>1. twice(i) = square + i /\ Width(ports, format, i) = i
      BY <2>2, <2>4 DEF Width, Twice
    <3>2. twice(i - 1) = (square - 2 * i + 1) + (i - 1)
      BY <2>2, <2>3, <2>4 DEF Twice
    <3> HIDE DEF twice
    <3>3. b = a + Width(ports, format, i) /\ 2 * a = twice(i - 1)
      BY <2>0, <2>1
    <3>4. 2 * b = twice(i)
      BY <2>2, <3>1, <3>2, <3>3
    <3>. QED
      BY <2>0, <2>1, <3>4
  <2>5. CASE format = "Upper"
    <3>1. twice(i) = 2 * product - square + i /\ Width(ports, format, i) = ports - i + 1
      BY <2>2, <2>5 DEF Width, Twice
    <3>2. twice(i - 1) = 2 * (product - ports) - (square - 2 * i + 1) + (i - 1)
      BY <2>2, <2>3, <2>5 DEF Twice
    <3> HIDE DEF twice
    <3>3. b = a + Width(ports, format, i) /\ 2 * a = twice(i - 1)
      BY <2>0, <2>1
    <3>4. 2 * b = twice(i)
      BY <2>2, <3>1, <3>2, <3>3
    <3>. QED
      BY <2>0, <2>1, <3>4
  <2>6. CASE format \notin {"Lower", "Upper"}
    <3>1. twice(i) = 2 * product /\ Width(ports, format, i) = ports
      BY <2>2, <2>6 DEF Width, Twice
    <3>2. twice(i - 1) = 2 * (product - ports)
      BY <2>2, <2>3, <2>6 DEF Twice
    <3> HIDE DEF twice
    <3>3. b = a + Width(ports, format, i) /\ 2 * a = twice(i - 1)
      BY <2>0, <2>1
    <3>4. 2 * b = twice(i)
      BY <2>2, <3>1, <3>2, <3>3
    <3>. QED
      BY <2>0, <2>1, <3>4
  <2>. QED
    BY <2>4, <2>5, <2>6
<1>3. \A i \in 0..ports : i \in T
  <2> HIDE DEF T
  <2>. QED
    BY <1>1, <1>2, StepByStep
<1>. QED
  BY <1>3

(* How many pairs of values the rows of a format are written with.           *)
Pairs(ports, format) ==
    IF format \in {"none", "Full"} THEN 2 * (ports * ports) ELSE ports * ports + ports

(* They add up over the rows.                                                *)
LEMMA RowsAddUp ==
    ASSUME NEW ports \in Nat \ {0}, NEW format \in MatrixFormats \cup {"none"},
           NEW start \in [0..ports -> Nat], start[0] = 0,
           \A i \in 1..ports : start[i] = start[i - 1] + Width(ports, format, i)
    PROVE  2 * start[ports] = Pairs(ports, format)
<1>1. 2 * start[ports] = Twice(ports, format, ports)
  <2>1. ports \in 0..ports
    OBVIOUS
  <2>. QED
    BY <2>1, RowsStart
<1>2. PICK square \in Int : square = ports * ports
  OBVIOUS
<1>3. CASE format = "Lower"
  BY <1>1, <1>2, <1>3 DEF Pairs, Twice
<1>4. CASE format = "Upper"
  BY <1>1, <1>2, <1>4 DEF Pairs, Twice
<1>5. CASE format \in {"none", "Full"}
  BY <1>1, <1>2, <1>5 DEF Pairs, Twice
<1>. QED
  BY <1>3, <1>4, <1>5 DEF MatrixFormats

(* entry_order names every entry of the matrix, by as many pairs as a point  *)
(* has (a triangular format leaves the other half to mirror).                *)
LEMMA OrderIsWhole ==
    ASSUME NEW ports \in Nat \ {0}, NEW format \in MatrixFormats \cup {"none"}, NEW order
    PROVE  /\ EntryOrder(ports, format, order) \in Seq((1..ports) \X (1..ports))
           /\ \A row, column \in 1..ports :
                 Names(EntryOrder(ports, format, order), format, row, column)
           /\ 2 * Len(EntryOrder(ports, format, order)) = Pairs(ports, format)
<1>1. CASE ports = 2 /\ format \in {"none", "Full"} /\ order = "21_12"
  <2>1. PICK eo : eo = EntryOrder(ports, format, order)
    OBVIOUS
  <2>2. eo = <<<<1, 1>>, <<2, 1>>, <<1, 2>>, <<2, 2>>>>
    BY <1>1, <2>1 DEF EntryOrder
  <2>3. eo \in Seq((1..2) \X (1..2)) /\ Len(eo) = 4
    BY <2>2
  <2>4. eo[1] = <<1, 1>> /\ eo[2] = <<2, 1>> /\ eo[3] = <<1, 2>> /\ eo[4] = <<2, 2>>
    BY <2>2
  <2>5. \A row, column \in 1..2 : \E k \in 1..4 : eo[k] = <<row, column>>
    <3>1. \A x \in 1..2 : x = 1 \/ x = 2
      OBVIOUS
    <3>2. 1 \in 1..4 /\ 2 \in 1..4 /\ 3 \in 1..4 /\ 4 \in 1..4
      OBVIOUS
    <3>. QED
      BY <2>4, <3>1, <3>2, Zenon
  <2>6. Pairs(ports, format) = 8
    BY <1>1 DEF Pairs
  <2>7. \A row, column \in 1..ports : Names(eo, format, row, column)
    <3>1. SUFFICES ASSUME NEW row \in 1..ports, NEW column \in 1..ports
                   PROVE  Names(eo, format, row, column)
      OBVIOUS
    <3>2. \E k \in 1..4 : eo[k] = <<row, column>>
      BY <1>1, <2>5
    <3>. QED
      BY <2>3, <3>2 DEF Names
  <2>8. eo \in Seq((1..ports) \X (1..ports)) /\ 2 * Len(eo) = Pairs(ports, format)
    BY <1>1, <2>3, <2>6
  <2>. QED
    BY <2>1, <2>7, <2>8
<1>2. CASE ~(ports = 2 /\ format \in {"none", "Full"} /\ order = "21_12")
  <2>1. EntryOrder(ports, format, order) = FlattenSeq(RowsOf(ports, format))
    BY <1>2 DEF EntryOrder, RowsOf
  <2>2. PICK start \in [0..ports -> Nat] :
           /\ start[0] = 0
           /\ \A i \in 1..ports : start[i] = start[i - 1] + Width(ports, format, i)
           /\ Len(FlattenSeq(RowsOf(ports, format))) = start[ports]
    BY RowsNameEveryEntry
  <2>3. 2 * start[ports] = Pairs(ports, format)
    BY <2>2, RowsAddUp
  <2>4. PICK eo : eo = FlattenSeq(RowsOf(ports, format))
    OBVIOUS
  <2>5. /\ eo \in Seq((1..ports) \X (1..ports))
        /\ \A row, column \in 1..ports : Names(eo, format, row, column)
    BY <2>4, RowsNameEveryEntry, Zenon
  <2>6. 2 * Len(eo) = Pairs(ports, format)
    BY <2>2, <2>3, <2>4
  <2>. QED
    BY <2>1, <2>4, <2>5, <2>6, Zenon
<1>. QED
  BY <1>1, <1>2
-----------------------------------------------------------------------------
(* The header a sweep is read with.                                          *)
LEMMA ShapeIsKnown ==
    ASSUME IInv, header.nports \in Nat \ {0}
    PROVE  /\ n \in Nat \ {0} /\ header.matrixFormat \in MatrixFormats \cup {"none"}
           /\ entryOrder \in Seq((1..n) \X (1..n)) /\ Len(entryOrder) \in Nat
           /\ 2 * Len(entryOrder) = Pairs(n, header.matrixFormat)
           /\ \A row, column \in 1..n : Writers(row, column) # {}
<1>1. n \in Nat \ {0} /\ header.matrixFormat \in MatrixFormats \cup {"none"}
  BY DEF IInv, ScanTypes, Headers, n
<1>2. /\ entryOrder \in Seq((1..n) \X (1..n))
      /\ \A row, column \in 1..n : Names(entryOrder, header.matrixFormat, row, column)
      /\ 2 * Len(entryOrder) = Pairs(n, header.matrixFormat)
  BY <1>1, OrderIsWhole DEF entryOrder
<1>3. ASSUME NEW row \in 1..n, NEW column \in 1..n
      PROVE  Writers(row, column) # {}
  <2>1. Names(entryOrder, header.matrixFormat, row, column)
    BY <1>2
  <2>2. PICK k \in 1..Len(entryOrder) :
           \/ entryOrder[k] = <<row, column>>
           \/ header.matrixFormat \notin {"none", "Full"} /\ entryOrder[k] = <<column, row>>
    BY <2>1 DEF Names
  <2>3. k \in Writers(row, column)
    BY <2>2 DEF Writers, Full
  <2>. QED
    BY <2>3
<1>4. Len(entryOrder) \in Nat
  BY <1>2
<1>. QED
  BY <1>1, <1>2, <1>3, <1>4

(* What the matrix of a whole point holds at a row and a column.             *)
LEMMA MatrixEntry ==
    ASSUME IInv, header.nports \in Nat \ {0}, NEW b,
           NEW row \in 1..n, NEW column \in 1..n
    PROVE  Matrix(b)[(row - 1) * n + column] = Pair(b, Max(Writers(row, column)))
<1>1. n \in Nat \ {0} /\ Writers(row, column) # {}
  BY ShapeIsKnown
<1>2. PICK e : e = (row - 1) * n + column
  OBVIOUS
<1>3. e \in 1..(n * n) /\ (e - 1) \div n + 1 = row /\ ((e - 1) % n) + 1 = column
  <2>1. PICK ports \in Nat \ {0} : ports = n
    BY <1>1
  <2>2. row \in 1..ports /\ column \in 1..ports
    BY <2>1
  <2>3. IsPlace(e, ports, row, column)
    BY <1>2, <2>1, <2>2, PlaceInMatrix
  <2>. QED
    BY <2>1, <2>3 DEF IsPlace
<1>4. Matrix(b)[e] = LET writers == Writers((e - 1) \div n + 1, ((e - 1) % n) + 1)
                     IN  IF writers = {} THEN Zero ELSE Pair(b, Max(writers))
  BY <1>3 DEF Matrix
<1>5. Matrix(b)[e] = IF Writers(row, column) = {} THEN Zero
                     ELSE Pair(b, Max(Writers(row, column)))
  BY <1>3, <1>4
<1>. QED
  BY <1>1, <1>2, <1>5

(* Every entry of a whole point's matrix is a pair of places of its block.   *)
LEMMA MatrixIsTyped ==
    ASSUME IInv, header.nports \in Nat \ {0}, Declared, NEW b \in Seq(AllPlaces),
           Len(b) = PointSize
    PROVE  Matrix(b) \in Seq(AllPlaces \X AllPlaces)
<1>1. /\ n \in Nat \ {0} /\ header.matrixFormat \in MatrixFormats \cup {"none"}
      /\ Len(entryOrder) \in Nat
      /\ 2 * Len(entryOrder) = Pairs(n, header.matrixFormat)
      /\ \A row, column \in 1..n : Writers(row, column) # {}
  BY ShapeIsKnown
<1>2. PICK square \in Nat : square = n * n
  BY <1>1
<1>3. PointSize = 2 * Len(entryOrder) + 1
  <2>1. ValuesPerPoint(n) = square * 2 + 1
    <3>1. ValuesPerPoint(n) # None
      BY <1>1 DEF Declared, None, n
    <3>. QED
      BY <1>2, <3>1 DEF ValuesPerPoint
  <2>2. TriangleValues(n) = square + n + 1
    BY <1>2 DEF TriangleValues
  <2>3. Pairs(n, header.matrixFormat) = IF Full THEN 2 * square ELSE square + n
    BY <1>2 DEF Pairs, Full
  <2>. QED
    BY <1>1, <1>2, <2>1, <2>2, <2>3 DEF PointSize
<1>4. ASSUME NEW k \in 1..Len(entryOrder)
      PROVE  Pair(b, k) \in AllPlaces \X AllPlaces
  <2>1. 2 * k \in 1..Len(b) /\ 2 * k + 1 \in 1..Len(b)
    BY <1>1, <1>3
  <2>2. b[2 * k] \in AllPlaces /\ b[2 * k + 1] \in AllPlaces
    BY <2>1
  <2>. QED
    BY <2>2 DEF Pair
<1>5. ASSUME NEW row \in 1..n, NEW column \in 1..n
      PROVE  Max(Writers(row, column)) \in 1..Len(entryOrder)
  <2>1. Writers(row, column) \subseteq 1..Len(entryOrder)
    BY DEF Writers
  <2>2. Writers(row, column) # {}
    BY <1>1
  <2>. QED
    BY <1>1, <2>1, <2>2, MaxIsInside
<1>6. ASSUME NEW e \in 1..square
      PROVE  Matrix(b)[e] \in AllPlaces \X AllPlaces
  <2>1. PICK row \in 1..n, column \in 1..n :
           row = (e - 1) \div n + 1 /\ column = ((e - 1) % n) + 1
    BY <1>1, <1>2, EntryHasAPlace
  <2>2. Matrix(b)[e] = LET writers == Writers((e - 1) \div n + 1, ((e - 1) % n) + 1)
                       IN  IF writers = {} THEN Zero ELSE Pair(b, Max(writers))
    BY <1>2 DEF Matrix
  <2>3. Matrix(b)[e] = IF Writers(row, column) = {} THEN Zero
                       ELSE Pair(b, Max(Writers(row, column)))
    BY <2>1, <2>2
  <2>4. Matrix(b)[e] = Pair(b, Max(Writers(row, column)))
    BY <1>1, <2>3
  <2>. QED
    BY <1>4, <1>5, <2>4
<1>7. DOMAIN Matrix(b) = 1..square /\ Matrix(b) = [e \in 1..square |-> Matrix(b)[e]]
  BY <1>2 DEF Matrix
<1>8. Matrix(b) \in [1..square -> AllPlaces \X AllPlaces]
  BY <1>6, <1>7
<1>. QED
  BY <1>2, <1>8, SeqDef
-----------------------------------------------------------------------------
(* Symmetric matrices of so many points, one behind the other.               *)
Mirrored(entries, count, ports) ==
    \A k \in 0..(count - 1), row, column \in 1..ports :
       entries[k * ports * ports + (row - 1) * ports + column]
         = entries[k * ports * ports + (column - 1) * ports + row]

(* One more symmetric matrix.                                                *)
LEMMA MirroredJoins ==
    ASSUME NEW ports \in Nat \ {0}, NEW count \in Nat, NEW S, NEW a \in Seq(S), NEW b \in Seq(S),
           Len(a) = count * (ports * ports), Len(b) = ports * ports,
           Mirrored(a, count, ports), Mirrored(b, 1, ports)
    PROVE  Mirrored(a \o b, count + 1, ports)
<1>1. Matrices(a, count, ports) /\ Matrices(b, 1, ports)
  <2>1. PICK square \in Nat : square = ports * ports
    OBVIOUS
  <2>. QED
    BY <2>1 DEF Matrices
<1>2. ASSUME NEW row \in 1..ports, NEW column \in 1..ports
      PROVE  EntryJoins(a \o b, a, b, count, ports, row, column)
  BY <1>1, MatrixJoins
<1>3. ASSUME NEW row \in 1..ports, NEW column \in 1..ports
      PROVE  b[(row - 1) * ports + column] = b[(column - 1) * ports + row]
  <2>1. 0 \in 0..(1 - 1)
    OBVIOUS
  <2>2. b[0 * ports * ports + (row - 1) * ports + column]
          = b[0 * ports * ports + (column - 1) * ports + row]
    BY <2>1, Zenon DEF Mirrored
  <2>3. \A d \in Int, c \in 1..ports : 0 * ports * ports + d + c = d + c
    OBVIOUS
  <2>4. (row - 1) * ports \in Int /\ (column - 1) * ports \in Int
    OBVIOUS
  <2>. QED
    BY <2>2, <2>3, <2>4, Zenon
<1>4. SUFFICES ASSUME NEW k \in 0..((count + 1) - 1), NEW row \in 1..ports, NEW column \in 1..ports
               PROVE  (a \o b)[k * ports * ports + (row - 1) * ports + column]
                        = (a \o b)[k * ports * ports + (column - 1) * ports + row]
  BY DEF Mirrored
<1>5. CASE k \in 0..(count - 1)
  <2>1. a[k * ports * ports + (row - 1) * ports + column]
          = a[k * ports * ports + (column - 1) * ports + row]
    BY <1>5, Zenon DEF Mirrored
  <2>. QED
    BY <1>2, <1>5, <2>1, Zenon DEF EntryJoins
<1>6. CASE k = count
  BY <1>2, <1>3, <1>6, Zenon DEF EntryJoins
<1>7. k \in 0..(count - 1) \/ k = count
  OBVIOUS
<1>. QED
  BY <1>5, <1>6, <1>7, Zenon

(* A matrix is symmetric unless the file writes both its halves.             *)
LEMMA MatrixIsMirrored ==
    ASSUME IInv, header.nports \in Nat \ {0}, ~Full, NEW b
    PROVE  Mirrored(Matrix(b), 1, n)
<1>1. PICK ports \in Nat \ {0} : ports = n
  BY ShapeIsKnown
<1>2. SUFFICES ASSUME NEW k \in 0..(1 - 1), NEW row \in 1..n, NEW column \in 1..n
               PROVE  Matrix(b)[k * n * n + (row - 1) * n + column]
                        = Matrix(b)[k * n * n + (column - 1) * n + row]
  BY DEF Mirrored
<1>3. k * n * n = 0
  BY <1>1
<1>4. ASSUME NEW r \in 1..n, NEW c \in 1..n
      PROVE  k * n * n + (r - 1) * n + c = (r - 1) * n + c
  <2>1. PICK d \in Int : d = (r - 1) * n
    BY <1>1
  <2>. QED
    BY <1>1, <1>3, <2>1
<1>5. Writers(row, column) = Writers(column, row)
  BY DEF Writers
<1>6. /\ Matrix(b)[(row - 1) * n + column] = Pair(b, Max(Writers(row, column)))
      /\ Matrix(b)[(column - 1) * n + row] = Pair(b, Max(Writers(column, row)))
  BY MatrixEntry
<1>. QED
  BY <1>4, <1>5, <1>6, Zenon
-----------------------------------------------------------------------------
(* Every entry held is a pair of tokens, and its mirror image the same pair  *)
(* where the file writes one triangle.                                       *)
WrittenInv ==
    /\ s \in Seq(AllPlaces \X AllPlaces)
    /\ freqHz # <<>> /\ ~Full => Mirrored(s, Len(freqHz), n)

LEMMA StepKeepsWritten ==
    ASSUME IInv, BudgetInv, WrittenInv, [Next]_vars
    PROVE  WrittenInv'
<1>1. CASE UNCHANGED <<header, freqHz, s>>
  BY <1>1 DEF WrittenInv, Full, Mirrored, n
<1>2. CASE ReadHeader
  <2>1. freqHz' = <<>> /\ s' = <<>>
    BY <1>2, HeaderSteps
       DEF IInv, ReadHeader, HeaderOutcome, ControlInv, HeaderLoops, dataVars, points
  <2>. QED
    BY <2>1 DEF WrittenInv
<1>3. CASE AddPoint
  <2>1. /\ pc = "tokens" /\ Len(Extended) = PointSize
        /\ s' = s \o Matrix(Extended)
        /\ freqHz' = Append(freqHz, Value(Extended[1]))
        /\ header' = header
    BY <1>3 DEF AddPoint, Advance, headerVars
  <2>2. /\ header.nports \in Nat \ {0} /\ freqHz \in Seq(Int) /\ Len(freqHz) \in Nat
        /\ Declared
    BY <2>1 DEF IInv, ControlInv, Frozen, ScanTypes, BudgetInv
  <2>3. Extended \in Seq(AllPlaces) /\ Value(Extended[1]) \in Int
    BY <2>1, TokenExtends
  <2>4. Matrix(Extended) \in Seq(AllPlaces \X AllPlaces)
    BY <2>1, <2>2, <2>3, MatrixIsTyped
  <2>5. s \in Seq(AllPlaces \X AllPlaces)
    BY DEF WrittenInv
  <2>6. s' \in Seq(AllPlaces \X AllPlaces)
    BY <2>1, <2>4, <2>5, ConcatProperties
  <2>7. Len(freqHz') = Len(freqHz) + 1
    BY <2>1, <2>2, <2>3, AppendProperties
  <2>8. ASSUME ~Full PROVE Mirrored(s', Len(freqHz'), n)
    <3>1. PICK ports \in Nat \ {0}, count \in Nat : ports = n /\ count = Len(freqHz)
      BY <2>2 DEF n
    <3>2. Len(s) = count * (ports * ports)
      <4>1. CASE freqHz = <<>>
        <5>1. Len(s) = 0 /\ count = 0
          BY <3>1, <4>1 DEF IInv, ShapeInv
        <5>. QED
          BY <3>1, <5>1
      <4>2. CASE freqHz # <<>>
        BY <3>1, <4>2 DEF IInv, ShapeInv, n
      <4>. QED
        BY <4>1, <4>2
    <3>3. Len(Matrix(Extended)) = ports * ports
      BY <3>1, MatrixIsWhole
    <3>4. Mirrored(s, count, ports)
      <4>1. CASE freqHz = <<>>
        <5>1. count = 0
          BY <3>1, <4>1
        <5>2. 0..(count - 1) = {}
          BY <5>1
        <5>. QED
          BY <5>2, Zenon DEF Mirrored
      <4>2. CASE freqHz # <<>>
        BY <2>8, <3>1, <4>2 DEF WrittenInv
      <4>. QED
        BY <4>1, <4>2
    <3>5. Mirrored(Matrix(Extended), 1, ports)
      BY <2>2, <2>8, <3>1, MatrixIsMirrored
    <3>6. Mirrored(s \o Matrix(Extended), count + 1, ports)
      BY <2>4, <2>5, <3>2, <3>3, <3>4, <3>5, MirroredJoins
    <3>. QED
      BY <2>1, <2>7, <3>1, <3>6
  <2>9. Full' = Full /\ n' = n
    BY <2>1 DEF Full, n
  <2>10. ASSUME ~Full' PROVE Mirrored(s, Len(freqHz), n)'
    BY <2>8, <2>9, <2>10 DEF Mirrored
  <2>. QED
    BY <2>6, <2>10 DEF WrittenInv
<1>4. CASE \/ FreezePlan \/ RejectPlan \/ TakeDataLine \/ PushToken \/ RejectToken
           \/ SkipSectionLine \/ BeginNoise \/ EndFile \/ RejectSectionKeyword
           \/ RejectContent \/ AddNoisePoint \/ RejectNoiseLine \/ ReachEnd \/ Done
           \/ UNCHANGED vars
  <2>1. UNCHANGED <<header, freqHz, s>>
    BY <1>4
       DEF FreezePlan, RejectPlan, TakeDataLine, PushToken, Advance, RejectToken,
           SkipSectionLine, BeginNoise, EndFile, RejectSectionKeyword, RejectContent,
           AddNoisePoint, RejectNoiseLine, ReachEnd, Done, vars, Fail, FailHeader,
           headerVars, dataVars, points
  <2>. QED
    BY <1>1, <2>1
<1>. QED
  BY <1>2, <1>3, <1>4 DEF Next

(* What is held is written in every state.                                   *)
THEOREM WrittenHolds == Spec => []WrittenInv
<1>1. Init => WrittenInv
  BY DEF Init, WrittenInv
<1>2. IInv /\ BudgetInv /\ WrittenInv /\ [Next]_vars => WrittenInv'
  BY StepKeepsWritten
<1>. QED
  BY <1>1, <1>2, Invariance, BudgetHolds, PTL DEF Spec

(* entry_order and mirror leave no entry of a point at the zero it was       *)
(* resized with, and make the matrix of a triangular file symmetric, for     *)
(* every port count, format and two-port order.                              *)
THEOREM EntriesAreWritten == Spec => []EveryEntryIsWritten
<1>1. IInv /\ WrittenInv => EveryEntryIsWritten
  <2>. SUFFICES ASSUME IInv, WrittenInv, freqHz # <<>>
                PROVE  /\ Len(s) = Len(freqHz) * n * n
                       /\ \A i \in 1..Len(s) : s[i] # Zero
                       /\ ~Full => Mirrored(s, Len(freqHz), n)
    BY DEF EveryEntryIsWritten, Mirrored
  <2>1. Len(s) = Len(freqHz) * n * n
    <3>1. PICK ports \in Nat, count \in Nat : ports = n /\ count = Len(freqHz)
      BY DEF IInv, ShapeInv, ScanTypes, n
    <3>2. Len(s) = count * (ports * ports)
      BY <3>1 DEF IInv, ShapeInv, n
    <3>. QED
      BY <3>1, <3>2
  <2>2. ASSUME NEW i \in 1..Len(s) PROVE s[i] # Zero
    <3>1. s[i] \in AllPlaces \X AllPlaces
      BY DEF WrittenInv
    <3>. QED
      BY <3>1 DEF Zero
  <2>. QED
    BY <2>1, <2>2 DEF WrittenInv
<1>. QED
  BY <1>1, WrittenHolds, Invariance, PTL
-----------------------------------------------------------------------------
(* The types of what the other invariants say nothing of.                    *)
AnswerTyped == outcome \in [kind : {"reading", "network"} \cup Errors, line : Nat]

RestTyped ==
    /\ AnswerTyped
    /\ blockLine \in 0..Len(file)
    /\ capacity \in [freqHz : Nat, s : Nat]
    /\ noiseStartsAt \in 0..Len(file)
    /\ z0 \in Seq(AllPlaces)
    /\ pc \in Behind => header.options # 0 /\ ReferenceHolds

(* Every fault is one of the errors.                                         *)
Faults == Errors \cup {NoFault}

LEMMA FaultsAreErrors ==
    /\ PlanFault \in Faults /\ ListFault \in Faults /\ EndFault \in Faults
    /\ \A w : KeywordFault(w) \in Faults
    /\ \A w \in Bracketed : SectionKeywordFault(w) \in Faults
    /\ \A v : RowFault(v) \in Faults
    /\ \A b : PointFault(b) \in Faults
<1>1. PlanFault \in Faults
  BY DEF PlanFault, Faults, Errors, NoFault
<1>2. ListFault \in Faults
  BY DEF ListFault, Faults, Errors, NoFault
<1>3. EndFault \in Faults
  BY DEF EndFault, NoiseCountFault, Faults, Errors, NoFault
<1>4. ASSUME NEW w PROVE KeywordFault(w) \in Faults
  <2>1. ClaimFault(w) \in Faults /\ VersionFault \in Faults
    BY DEF ClaimFault, VersionFault, Faults, Errors, NoFault
  <2>2. PortsFault \in Faults /\ TwoPortOrderFault \in Faults
    BY DEF PortsFault, TwoPortOrderFault, Faults, Errors, NoFault
  <2>3. /\ NoFault \in Faults /\ "InvalidKeywordArgument" \in Faults
        /\ "WrongResistanceCount" \in Faults /\ "MixedModeUnsupported" \in Faults
        /\ "KeywordOutOfOrder" \in Faults /\ "KeywordFault" \in Faults
    BY DEF Faults, Errors
  <2>4. ArgumentFault(w) \in Faults
    BY <1>2, <2>2, <2>3 DEF ArgumentFault
  <2>. QED
    BY <2>1, <2>3, <2>4 DEF KeywordFault
<1>5. ASSUME NEW w \in Bracketed PROVE SectionKeywordFault(w) \in Faults
  <2>1. NoiseDataFault \in Faults
    BY DEF NoiseDataFault, Faults, Errors, NoFault
  <2>2. /\ NoFault \in Faults /\ "TrailingDataAfterEnd" \in Faults
        /\ "KeywordOutOfOrder" \in Faults /\ "KeywordFault" \in Faults
    BY DEF Faults, Errors
  <2>. QED
    BY <2>1, <2>2 DEF SectionKeywordFault
<1>6. ASSUME NEW v PROVE RowFault(v) \in Faults
  BY DEF RowFault, Faults, Errors, NoFault
<1>7. ASSUME NEW b PROVE PointFault(b) \in Faults
  BY DEF PointFault, Faults, Errors, NoFault
<1>. QED
  BY <1>1, <1>2, <1>3, <1>4, <1>5, <1>6, <1>7

(* An error answer has its type, and is no network.                          *)
LEMMA FailureIsTyped ==
    ASSUME NEW kind \in Errors, NEW line \in Nat, FailHeader(kind, line)
    PROVE  AnswerTyped' /\ outcome'.kind # "network"
<1>1. kind # "network"
  BY DEF Errors
<1>. QED
  BY <1>1 DEF FailHeader, Answer, AnswerTyped

(* The header loops answer with an error or not at all.                      *)
LEMMA HeaderAnswers ==
    ASSUME IInv, Declared, AnswerTyped, HeaderNext
    PROVE  AnswerTyped'
<1>1. pos \in Nat /\ NextLine \in Nat /\ openedAt \in Nat
  BY DEF IInv, ScanTypes, Declared, NextLine
<1>2. CASE UNCHANGED outcome
  BY <1>2 DEF AnswerTyped
<1>3. CASE \E kind \in Errors, line \in Nat : FailHeader(kind, line)
  BY <1>3, FailureIsTyped
<1>4. CASE SkipHeaderLine \/ TakeOptionLine \/ IgnoreOptionLine \/ ApplyKeyword
           \/ TakeNetworkData \/ BeginReference \/ SkipReferenceLine \/ ExtendReference
           \/ BeginInformation \/ SkipInformationLine \/ EndInformation
  <2>1. UNCHANGED outcome
    BY <1>4
       DEF SkipHeaderLine, TakeOptionLine, IgnoreOptionLine, ApplyKeyword, TakeNetworkData,
           BeginReference, SkipReferenceLine, ExtendReference, BeginInformation,
           SkipInformationLine, EndInformation
  <2>. QED
    BY <1>2, <2>1
<1>5. CASE RejectOptionLine
  <2>1. FailHeader(IF Line.arg = "unsupported" THEN "UnsupportedParameter"
                   ELSE "OptionLineFault", NextLine)
    BY <1>5 DEF RejectOptionLine
  <2>. QED
    BY <1>1, <2>1, FailureIsTyped DEF Errors
<1>6. CASE RejectEarlyData
  <2>1. FailHeader(IF header.options = 0 THEN "DataBeforeOptionLine"
                   ELSE "MissingKeyword", NextLine)
    BY <1>6 DEF RejectEarlyData
  <2>. QED
    BY <1>1, <2>1, FailureIsTyped DEF Errors
<1>7. CASE RejectKeyword
  <2>1. FailHeader(KeywordFault(Line.kind), NextLine) /\ KeywordFault(Line.kind) # NoFault
    BY <1>7 DEF RejectKeyword
  <2>2. KeywordFault(Line.kind) \in Errors
    BY <2>1, FaultsAreErrors DEF Faults
  <2>. QED
    BY <1>1, <2>1, <2>2, FailureIsTyped
<1>8. CASE MissNetworkData
  <2>1. FailHeader("MissingKeyword", 1)
    BY <1>8 DEF MissNetworkData
  <2>. QED
    BY <2>1, FailureIsTyped DEF Errors
<1>9. CASE RejectReference
  <2>1. \/ FailHeader(ListFault, NextLine) /\ ListFault # NoFault
        \/ FailHeader("WrongResistanceCount", openedAt)
        \/ FailHeader("InvalidNumber", NextLine)
    BY <1>9 DEF RejectReference
  <2>2. ListFault # NoFault => ListFault \in Errors
    BY FaultsAreErrors DEF Faults
  <2>3. "WrongResistanceCount" \in Errors /\ "InvalidNumber" \in Errors
    BY DEF Errors
  <2>. QED
    BY <1>1, <2>1, <2>2, <2>3, FailureIsTyped
<1>10. CASE RejectInformation
  <2>1. \/ FailHeader("KeywordFault", NextLine)
        \/ FailHeader("KeywordOutOfOrder", NextLine)
        \/ FailHeader("MissingKeyword", openedAt)
    BY <1>10 DEF RejectInformation
  <2>. QED
    BY <1>1, <2>1, FailureIsTyped DEF Errors
<1>. QED
  BY <1>4, <1>5, <1>6, <1>7, <1>8, <1>9, <1>10 DEF HeaderNext

(* An error behind the header names a line, whatever it complains of.        *)
LEMMA SectionAnswers ==
    ASSUME IInv, BudgetInv, RestTyped,
           RejectPlan \/ RejectToken \/ RejectSectionKeyword \/ RejectContent \/ RejectNoiseLine
           \/ (ReachEnd /\ Fail(EndFault, EndFaultLine) /\ EndFault # NoFault)
    PROVE  AnswerTyped' /\ outcome'.kind # "network"
<1>1. /\ pos \in Nat /\ NextLine \in Nat /\ Len(file) \in Nat /\ dataStartsAt \in Nat
      /\ blockLine \in Nat /\ noiseStartsAt \in Nat
      /\ header.options \in Nat /\ header.nnoiseAt \in Nat /\ OpenedOn \in Nat
  <2>1. pos \in Nat /\ Len(file) \in Nat /\ header \in Headers
    BY DEF IInv, ScanTypes
  <2>2. dataStartsAt \in Nat /\ blockLine \in Nat /\ noiseStartsAt \in Nat
    BY <2>1 DEF BudgetInv, Declared, RestTyped
  <2>. QED
    BY <2>1, <2>2 DEF NextLine, Headers, OpenedOn
<1>2. ASSUME NEW kind \in Errors, NEW line \in Nat, Fail(kind, line)
      PROVE  AnswerTyped' /\ outcome'.kind # "network"
  BY <1>2, FailureIsTyped DEF Fail
<1>3. CASE RejectPlan
  <2>1. PICK line \in Nat : Fail(PlanFault, line)
    BY <1>1, <1>3 DEF RejectPlan
  <2>2. PlanFault \in Errors
    BY <1>3, FaultsAreErrors DEF Faults, RejectPlan
  <2>. QED
    BY <1>2, <2>1, <2>2
<1>4. CASE RejectToken
  <2>1. \/ Fail("InvalidNumber", pos)
        \/ Fail(PointFault(Extended), OpenedOn) /\ PointFault(Extended) # NoFault
    BY <1>4 DEF RejectToken
  <2>2. PointFault(Extended) # NoFault => PointFault(Extended) \in Errors
    BY FaultsAreErrors DEF Faults
  <2>3. "InvalidNumber" \in Errors
    BY DEF Errors
  <2>. QED
    BY <1>1, <1>2, <2>1, <2>2, <2>3
<1>5. CASE RejectSectionKeyword
  <2>1. PICK line \in Nat : Fail(SectionKeywordFault(Line.kind), line)
    BY <1>1, <1>5 DEF RejectSectionKeyword
  <2>2. Line.kind \in Bracketed
    BY <1>5 DEF RejectSectionKeyword, Takes
  <2>3. SectionKeywordFault(Line.kind) \in Errors
    BY <1>5, <2>2, FaultsAreErrors DEF Faults, RejectSectionKeyword
  <2>. QED
    BY <1>2, <2>1, <2>3
<1>6. CASE RejectContent
  <2>1. \E kind \in {"InvalidNumber", "MalformedNoiseLine", "TrailingDataAfterEnd"} :
           Fail(kind, NextLine)
    BY <1>6 DEF RejectContent
  <2>2. {"InvalidNumber", "MalformedNoiseLine", "TrailingDataAfterEnd"} \subseteq Errors
    BY DEF Errors
  <2>. QED
    BY <1>1, <1>2, <2>1, <2>2
<1>7. CASE RejectNoiseLine
  <2>1. Fail(RowFault(Line.v), NextLine) /\ RowFault(Line.v) # NoFault
    BY <1>7 DEF RejectNoiseLine
  <2>2. RowFault(Line.v) \in Errors
    BY <2>1, FaultsAreErrors DEF Faults
  <2>. QED
    BY <1>1, <1>2, <2>1, <2>2
<1>8. CASE Fail(EndFault, EndFaultLine) /\ EndFault # NoFault
  <2>1. EndFault \in {"WrongValueCount", "DeclaredCountMismatch", "DeclaredNoiseCountMismatch",
                      "KeywordNotPermitted"}
    BY <1>8 DEF EndFault, NoiseCountFault, NoFault
  <2>2. EndFaultLine \in Nat
    <3>1. PICK fault : fault = EndFault
      OBVIOUS
    <3>. QED
      BY <1>1, <2>1, <3>1 DEF EndFaultLine
  <2>3. EndFault \in Errors
    BY <1>8, FaultsAreErrors DEF Faults
  <2>. QED
    BY <1>2, <1>8, <2>2, <2>3
<1>. QED
  BY <1>3, <1>4, <1>5, <1>6, <1>7, <1>8
-----------------------------------------------------------------------------
(* The option line's values.                                                 *)
LEMMA ResistancesAreTyped ==
    ASSUME IInv, Declared, header.options # 0
    PROVE  /\ header.options \in 1..Len(file)
           /\ Resistances \in Seq(AllPlaces)
           /\ \A i \in 1..Len(Resistances) : Resistances[i] = <<header.options, i>>
<1>1. header.options \in 1..Len(file) /\ file \in Seq(Lines) /\ header.options \in Nat
  BY DEF IInv, ScanTypes, Declared
<1>2. file[header.options] \in Lines
  BY <1>1, ElementOfSeq
<1>3. PICK len \in Nat : len = Len(file[header.options].v)
  BY <1>2 DEF Lines
<1>4. Resistances = [c \in 1..len |-> <<header.options, c>>]
  BY <1>3 DEF Resistances, Places
<1>. QED
  BY <1>1, <1>4 DEF AllPlaces

(* A value for each port.                                                    *)
LEMMA PerPortIsTyped ==
    ASSUME IInv, Declared, RestTyped, pc \in Sections
    PROVE  /\ n \in Nat \ {0}
           /\ \A port \in 1..n : PerPort[port] \in AllPlaces
           /\ BroadcastReference \in Seq(AllPlaces)
<1>1. /\ n \in Nat \ {0} /\ header.options # 0 /\ ReferenceHolds
      /\ header.reference \in Seq(AllPlaces) /\ freqHz \in Seq(Int)
  BY DEF IInv, ControlInv, Frozen, ScanTypes, Headers, RestTyped, Behind, n
<1>2. ASSUME NEW port \in 1..n PROVE PerPort[port] \in AllPlaces
  <2>1. CASE header.reference # <<>>
    <3>1. Len(header.reference) = n
      BY <2>1 DEF Declared, n
    <3>2. header.reference[port] \in AllPlaces
      BY <1>1, <3>1
    <3>. QED
      BY <2>1, <3>2 DEF PerPort
  <2>2. CASE header.reference = <<>>
    <3>1. Resistances \in Seq(AllPlaces) /\ (Len(Resistances) = 1 \/ Len(Resistances) = n)
      BY <1>1, <2>2, ResistancesAreTyped DEF ReferenceHolds
    <3>2. PICK i \in 1..Len(Resistances) : i = IF Len(Resistances) = 1 THEN 1 ELSE port
      <4>1. PICK len : len = Len(Resistances)
        OBVIOUS
      <4>2. len = 1 \/ len = n
        BY <3>1, <4>1
      <4>3. (IF len = 1 THEN 1 ELSE port) \in 1..len
        BY <1>1, <4>2
      <4>. QED
        BY <4>1, <4>3
    <3>3. PerPort[port] = Resistances[i]
      BY <2>2, <3>2 DEF PerPort
    <3>. QED
      BY <3>1, <3>2, <3>3
  <2>. QED
    BY <2>1, <2>2
<1>3. PICK count \in Nat, ports \in Nat \ {0} : count = Len(freqHz) /\ ports = n
  BY <1>1
<1>4. PICK all \in Nat : all = count * ports
  OBVIOUS
<1>5. BroadcastReference = [i \in 1..all |-> PerPort[((i - 1) % ports) + 1]]
  BY <1>3, <1>4 DEF BroadcastReference
<1>6. ASSUME NEW i \in 1..all PROVE PerPort[((i - 1) % ports) + 1] \in AllPlaces
  <2>1. i - 1 \in Int
    OBVIOUS
  <2>2. (i - 1) % ports \in 0..(ports - 1)
    BY <2>1
  <2>3. PICK port \in 1..ports : port = ((i - 1) % ports) + 1
    BY <2>2
  <2>. QED
    BY <1>2, <1>3, <2>3
<1>7. BroadcastReference \in Seq(AllPlaces)
  BY <1>5, <1>6, SeqDef
<1>. QED
  BY <1>1, <1>2, <1>7

(* Nothing the header was checked for changes behind it.                     *)
LEMMA HeaderStays ==
    ASSUME RestTyped, UNCHANGED <<file, header>>, pc' \in Behind => pc \in Behind
    PROVE  pc' \in Behind => header'.options # 0 /\ ReferenceHolds'
  BY DEF RestTyped, ReferenceHolds, Resistances, Places, n

(* The other types are kept: one step per action.                            *)
LEMMA StepKeepsTypes ==
    ASSUME IInv, BudgetInv, RestTyped, [Next]_vars
    PROVE  RestTyped'
<1>1. UNCHANGED file /\ Len(file) \in Nat
  BY HeaderSteps
     DEF IInv, ScanTypes, Next, ReadHeader, HeaderOutcome, FreezePlan, RejectPlan, TakeDataLine,
         PushToken, AddPoint, Advance, RejectToken, Fail, FailHeader, SkipSectionLine, BeginNoise,
         EndFile, RejectSectionKeyword, RejectContent, AddNoisePoint, RejectNoiseLine,
         ReachEnd, Done, vars, input
<1>2. ASSUME AnswerTyped', UNCHANGED <<blockLine, capacity, noiseStartsAt, z0>>,
             pc' \notin Behind \/ (pc \in Behind /\ UNCHANGED header)
      PROVE  RestTyped'
  <2>1. pc' \in Behind => header'.options # 0 /\ ReferenceHolds'
    BY <1>1, <1>2, HeaderStays
  <2>. QED
    BY <1>1, <1>2, <2>1 DEF RestTyped
<1>3. ASSUME AnswerTyped', NEW kind, NEW line, Fail(kind, line)
      PROVE  RestTyped'
  BY <1>2, <1>3
     DEF Fail, FailHeader, Answer, dataVars, points, rows, Behind, Sections
<1>4. UNCHANGED outcome => AnswerTyped'
  BY DEF RestTyped, AnswerTyped
<1>5. CASE ReadHeader
  <2>1. HeaderOutcome /\ UNCHANGED dataVars /\ HeaderNext
    BY <1>5, HeaderSteps DEF IInv, ReadHeader
  <2>2. AnswerTyped'
    BY <2>1, HeaderAnswers DEF BudgetInv, RestTyped
  <2>3. pc' \notin Behind
    BY <2>1 DEF HeaderOutcome, HeaderLoops, Behind, Sections
  <2>. QED
    BY <1>2, <2>1, <2>2, <2>3 DEF dataVars, points, rows
<1>6. CASE FreezePlan
  <2>1. /\ PlanFault = NoFault /\ pc = "plan" /\ capacity' = Capacity
        /\ UNCHANGED <<header, outcome, blockLine, noiseStartsAt, z0>>
    BY <1>6 DEF FreezePlan, headerVars, rows
  <2>2. header.nports \in Nat /\ header.nfreqs \in Nat /\ fileValues \in Nat
    BY <2>1, PlanPasses DEF Frozen, BudgetInv
  <2>3. header.options # 0 /\ None \notin {header.nports, header.nfreqs}
    BY <2>1 DEF PlanFault, NoFault
  <2>4. ReferenceHolds
    BY <2>1, <2>3 DEF PlanFault, NoFault
  <2>5. Capacity \in [freqHz : Nat, s : Nat]
    <3>1. PICK sweep \in Nat : sweep = Lesser(header.nfreqs, fileValues)
      BY <2>2 DEF Lesser
    <3>2. PICK entries \in Nat : entries = Lesser(sweep * n * n, fileValues)
      <4>1. PICK all : all = sweep * n * n
        OBVIOUS
      <4>2. all \in Nat
        BY <2>2, <4>1 DEF n
      <4>. QED
        BY <2>2, <4>1, <4>2 DEF Lesser
    <3>. QED
      BY <3>1, <3>2 DEF Capacity
  <2>6. header'.options # 0 /\ ReferenceHolds'
    BY <1>1, <2>1, <2>3, <2>4 DEF ReferenceHolds, Resistances, Places, n
  <2>. QED
    BY <1>1, <1>4, <2>1, <2>5, <2>6 DEF RestTyped
<1>7. CASE RejectPlan \/ RejectToken \/ RejectSectionKeyword \/ RejectContent \/ RejectNoiseLine
  <2>1. AnswerTyped'
    BY <1>7, SectionAnswers
  <2>2. \E kind, line : Fail(kind, line)
    BY <1>7 DEF RejectPlan, RejectToken, RejectSectionKeyword, RejectContent, RejectNoiseLine
  <2>. QED
    BY <1>3, <2>1, <2>2
<1>8. CASE TakeDataLine
  <2>1. /\ pc \in Behind
        /\ UNCHANGED <<header, outcome, blockLine, capacity, noiseStartsAt, z0>>
    BY <1>8 DEF TakeDataLine, Takes, Behind, Sections, headerVars, rows
  <2>. QED
    BY <1>2, <1>4, <2>1
<1>9. CASE PushToken \/ AddPoint
  <2>1. /\ pc \in Behind /\ pc' \in Behind /\ blockLine' = OpenedOn
        /\ UNCHANGED <<header, outcome, capacity, noiseStartsAt, z0>>
    BY <1>9 DEF PushToken, AddPoint, Advance, Behind, Sections, headerVars, rows
  <2>2. OpenedOn \in 0..Len(file)
    BY DEF OpenedOn, IInv, ScanTypes, RestTyped
  <2>3. header'.options # 0 /\ ReferenceHolds'
    BY <1>1, <2>1, HeaderStays
  <2>. QED
    BY <1>1, <1>4, <2>1, <2>2, <2>3 DEF RestTyped
<1>10. CASE SkipSectionLine \/ EndFile \/ AddNoisePoint
  <2>1. /\ pc \in Behind
        /\ UNCHANGED <<header, outcome, blockLine, capacity, noiseStartsAt, z0>>
    BY <1>10
       DEF SkipSectionLine, EndFile, AddNoisePoint, TakesSectionKeyword, Takes, Behind,
           Sections, headerVars, rows, points, dataVars
  <2>. QED
    BY <1>2, <1>4, <2>1
<1>11. CASE BeginNoise
  <2>1. /\ pc \in Behind /\ noiseStartsAt' = NextLine /\ pos < Len(file)
        /\ UNCHANGED <<header, outcome, blockLine, capacity, z0>>
    BY <1>11
       DEF BeginNoise, TakesSectionKeyword, Takes, Behind, Sections, headerVars, points
  <2>2. NextLine \in 0..Len(file)
    BY <2>1 DEF IInv, ScanTypes, NextLine
  <2>3. pc' \in Behind => header'.options # 0 /\ ReferenceHolds'
    BY <1>1, <2>1, HeaderStays
  <2>. QED
    BY <1>1, <1>4, <2>1, <2>2, <2>3 DEF RestTyped
<1>12. CASE ReachEnd
  <2>1. CASE EndFault # NoFault /\ Fail(EndFault, EndFaultLine)
    BY <1>3, <1>12, <2>1, SectionAnswers
  <2>2. CASE /\ z0' = BroadcastReference /\ Answer("network", 0)
             /\ UNCHANGED <<input, headerVars, points, rows>>
    <3>1. pc \in Sections
      BY <1>12 DEF ReachEnd, RunsOut
    <3>2. z0' \in Seq(AllPlaces)
      BY <2>2, <3>1, PerPortIsTyped DEF BudgetInv
    <3>3. AnswerTyped'
      BY <2>2 DEF Answer, AnswerTyped
    <3>. QED
      BY <1>1, <2>2, <3>2, <3>3 DEF RestTyped, Answer, points, rows, Behind, Sections
  <2>. QED
    BY <1>12, <2>1, <2>2 DEF ReachEnd
<1>13. CASE Done \/ UNCHANGED vars
  <2>1. UNCHANGED <<pc, header, outcome, blockLine, capacity, noiseStartsAt, z0>>
    BY <1>13 DEF Done, vars, headerVars, dataVars, points, rows
  <2>. QED
    BY <1>2, <1>4, <2>1
<1>. QED
  BY <1>5, <1>6, <1>7, <1>8, <1>9, <1>10, <1>11, <1>12, <1>13 DEF Next

(* What a line is blamed for, what was reserved and what each port's         *)
(* reference is keep their types, and no data is read without an option      *)
(* line whose values name every port (Header::finish).                       *)
THEOREM RestHolds == Spec => []RestTyped
<1>1. Init => RestTyped
  <2>. SUFFICES ASSUME Init PROVE RestTyped
    OBVIOUS
  <2>1. Len(file) \in Nat
    BY FilesAssumption DEF Init, HeaderInit
  <2>. QED
    BY <2>1 DEF Init, HeaderInit, RestTyped, AnswerTyped, Behind, Sections
<1>2. IInv /\ BudgetInv /\ RestTyped /\ [Next]_vars => RestTyped'
  BY StepKeepsTypes
<1>. QED
  BY <1>1, <1>2, Invariance, BudgetHolds, PTL DEF Spec

(* Every variable stays in its type, for every file and every width of       *)
(* usize: no place outside the file is ever read, kept or blamed.            *)
THEOREM TypesHold == Spec => []TypeOK
<1>1. IInv /\ BudgetInv /\ WrittenInv /\ RestTyped => TypeOK
  BY DEF IInv, ScanTypes, BudgetInv, Declared, WrittenInv, RestTyped, AnswerTyped, TypeOK,
         Loops, HeaderLoops, Sections, Rows
<1>. QED
  BY <1>1, Invariance, BudgetHolds, WrittenHolds, RestHolds, PTL
================================================================================
