------------------------------- MODULE V2Grammar -------------------------------
(***************************************************************************)
(* What a 2.x file means, said of the whole file at once: which lines form *)
(* its header, its [Reference] list, its data and its noise section, and   *)
(* what those must declare and contain.  The network data is the sequence  *)
(* of its tokens; lines do not matter in it.                               *)
(***************************************************************************)
EXTENDS V2Reader

LinesOf(f, kinds) == {i \in 1..Len(f) : f[i].kind \in kinds}
Has(f, w) == LinesOf(f, {w}) # {}
LineOf(f, w) == Min(LinesOf(f, {w}))

(* The first line from i on of one of the kinds, or one past the file's end. *)
NextOf(f, i, kinds) == Min({j \in LinesOf(f, kinds) : j >= i} \cup {Len(f) + 1})

(* The numbers on the data lines of a set of lines, in file order.           *)
TokensOn(f, lines) ==
    FlattenSeq([i \in 1..Len(f) |->
        IF i \in lines THEN [c \in 1..Len(f[i].v) |-> <<i, c>>] ELSE <<>>])

At(f, place) == f[place[1]].v[place[2]]

(* Lines inside the information block.                                       *)
Information(f) ==
    IF Has(f, "BeginInformation")
    THEN {i \in 1..Len(f) : /\ LineOf(f, "BeginInformation") < i
                            /\ i < NextOf(f, LineOf(f, "BeginInformation"), {"EndInformation"})}
    ELSE {}

(* Lines of the [Reference] list, its own included: up to the next keyword.  *)
ReferenceLines(f) ==
    IF Has(f, "Reference")
    THEN LineOf(f, "Reference")..(NextOf(f, LineOf(f, "Reference") + 1, Bracketed) - 1)
    ELSE {}
ReferenceValues(f) == TokensOn(f, ReferenceLines(f) \cap LinesOf(f, {"Reference", "data"}))

Options(f) == LinesOf(f, {"option"}) \ Information(f)

DataBegins(f) == LineOf(f, "NetworkData")
DataEnds(f) == NextOf(f, DataBegins(f), {"NoiseData", "End"})
NoiseEnds(f) == NextOf(f, DataBegins(f), {"End"})

NetworkTokens(f) ==
    TokensOn(f, {i \in LinesOf(f, {"data"}) : DataBegins(f) < i /\ i < DataEnds(f)})
NoiseLines(f) == {i \in LinesOf(f, {"data"}) : DataEnds(f) < i /\ i < NoiseEnds(f)}

Ports(f) == f[LineOf(f, "NumberOfPorts")].count
Points(f) == f[LineOf(f, "NumberOfFrequencies")].count
Format(f) == IF Has(f, "MatrixFormat") THEN f[LineOf(f, "MatrixFormat")].arg ELSE "Full"
Size(f) == IF Format(f) = "Full" THEN 2 * Ports(f) * Ports(f) + 1
           ELSE Ports(f) * (Ports(f) + 1) + 1

Once == Keywords \ {"EndInformation"}
InHeader == Once \ {"NoiseData", "End", "MixedModeOrder"}

(* Which keywords there are, how often and in which order.                   *)
KeywordsHold(f) ==
    /\ LinesOf(f, {"broken", "MixedModeOrder"}) = {}
    /\ \A w \in Once : Cardinality(LinesOf(f, {w})) <= 1
    /\ \A w \in {"NumberOfPorts", "NumberOfFrequencies", "NetworkData"} : Has(f, w)
    /\ \A i \in LinesOf(f, Bracketed \cup {"option"}) :
            Has(f, "Version") => LineOf(f, "Version") <= i
    /\ \A w \in InHeader : Has(f, w) => LineOf(f, w) <= DataBegins(f)
    /\ \A w \in {"Reference", "TwoPortDataOrder"} :
            Has(f, w) => LineOf(f, "NumberOfPorts") < LineOf(f, w)
    /\ \A w \in {"NoiseData", "End"} : Has(f, w) => DataBegins(f) < LineOf(f, w)
    /\ \A i, j \in Keywords : i = "NoiseData" /\ j = "End" /\ Has(f, i) /\ Has(f, j)
                                => LineOf(f, i) < LineOf(f, j)
    /\ Has(f, "TwoPortDataOrder") <=> Ports(f) = 2
    /\ Has(f, "NoiseData") <=> Has(f, "NumberOfNoiseFrequencies")
    /\ Has(f, "NoiseData") => Ports(f) = 2
    /\ Cardinality(LinesOf(f, {"EndInformation"}))
         = Cardinality(LinesOf(f, {"BeginInformation"}))
    /\ Has(f, "BeginInformation") =>
            /\ LineOf(f, "BeginInformation") < LineOf(f, "EndInformation")
            /\ Information(f) \cap LinesOf(f, Bracketed) = {}

(* One option line in force, before [Number of Ports]; none where numbers    *)
(* are being read.                                                           *)
OptionsHold(f) ==
    /\ Options(f) # {}
    /\ f[Min(Options(f))].arg \in ValueFormats
    /\ Min(Options(f)) < LineOf(f, "NumberOfPorts")
    /\ Max(Options(f)) < DataBegins(f)
    /\ \A i \in Options(f) \cap ReferenceLines(f), j \in LinesOf(f, {"data"}) :
            j \in ReferenceLines(f) => j < i

ArgumentsHold(f) ==
    /\ \A w \in Counts \cup {"NumberOfPorts"} : Has(f, w) => f[LineOf(f, w)].count > 0
    /\ 2 * Ports(f) * Ports(f) + 1 <= MaxUsize
    /\ Has(f, "TwoPortDataOrder") => f[LineOf(f, "TwoPortDataOrder")].arg \in TwoPortOrders
    /\ Format(f) \in MatrixFormats
    /\ IF Has(f, "Reference")
       THEN /\ Len(ReferenceValues(f)) = Ports(f)
            /\ \A i \in 1..Ports(f) : /\ 0 < At(f, ReferenceValues(f)[i])
                                      /\ Finite(At(f, ReferenceValues(f)[i]))
       ELSE Len(f[Min(Options(f))].v) \in {1, Ports(f)}
    /\ \A i \in LinesOf(f, {"data"}) \ Information(f) :
            i < DataBegins(f) => i \in ReferenceLines(f)

(* Point k of the file, its frequency first.                                 *)
Point(f, k) == SubSeq(NetworkTokens(f), (k - 1) * Size(f) + 1, k * Size(f))
PointHz(f, k) == At(f, Point(f, k)[1])

PairConverts(f, first, second) ==
    /\ Finite(At(f, second))
    /\ IF f[Min(Options(f))].arg = "db"
       THEN At(f, first) <= MaxDecibels
       ELSE Finite(At(f, first))

NetworkHolds(f) ==
    /\ Size(f) <= fileValues
    /\ Len(NetworkTokens(f)) = Points(f) * Size(f)
    /\ \A i \in 1..Len(NetworkTokens(f)) : At(f, NetworkTokens(f)[i]) # Unreadable
    /\ \A k \in 1..Points(f) :
          /\ Finite(PointHz(f, k))
          /\ k > 1 => PointHz(f, k - 1) < PointHz(f, k)
          /\ \A i \in 1..((Size(f) - 1) \div 2) :
                PairConverts(f, Point(f, k)[2 * i], Point(f, k)[2 * i + 1])

NoiseHolds(f) ==
    /\ Has(f, "NoiseData") =>
          Cardinality(NoiseLines(f)) = f[LineOf(f, "NumberOfNoiseFrequencies")].count
    /\ \A i \in NoiseLines(f) :
          /\ Len(f[i].v) = 5
          /\ \A c \in 1..5 : Finite(f[i].v[c])
          /\ \A j \in NoiseLines(f) : i < j => f[i].v[1] < f[j].v[1]

WellFormed(f, given) ==
    /\ KeywordsHold(f)
    /\ OptionsHold(f)
    /\ ArgumentsHold(f)
    /\ given \in {None, Ports(f)}
    /\ NetworkHolds(f)
    /\ NoiseHolds(f)
    /\ \A i \in NoiseEnds(f)..Len(f) : f[i].kind \in Empty \cup {"End"}

(* The number, in file order, of the pair for an entry of the matrix.        *)
PairOf(f, row, column) ==
    LET lower == Min({row, column})
        upper == Max({row, column})
    IN  CASE Format(f) = "Lower" -> (upper * (upper - 1)) \div 2 + lower
          [] Format(f) = "Upper" ->
                (lower - 1) * Ports(f) - ((lower - 1) * (lower - 2)) \div 2
                  + upper - lower + 1
          [] Format(f) = "Full" ->
                IF Ports(f) = 2 /\ f[LineOf(f, "TwoPortDataOrder")].arg = "21_12"
                THEN (column - 1) * 2 + row
                ELSE (row - 1) * Ports(f) + column
-----------------------------------------------------------------------------
(* The reader accepts exactly the well-formed files: the keyword loop, the   *)
(* blocks inside it, the token counter and the section switch between them   *)
(* refuse every other file and no valid one.                                 *)
AcceptsExactlyTheGrammar ==
    pc = "done" => (outcome.kind = "network" <=> WellFormed(file, hint))

(* An accepted file is read as it says: every token between [Network Data]   *)
(* and the next section in its place in its point, wherever the lines break, *)
(* under every matrix format and two-port order; every noise line a point.   *)
ReadsWhatTheFileSays ==
    outcome.kind = "network" =>
        /\ header.nports = Ports(file)
        /\ freqHz = [k \in 1..Points(file) |-> PointHz(file, k)]
        /\ \A k \in 1..Points(file), row, column \in 1..n :
              LET i == PairOf(file, row, column)
              IN  s[(k - 1) * n * n + (row - 1) * n + column]
                    = <<Point(file, k)[2 * i], Point(file, k)[2 * i + 1]>>
        /\ {noise[i].line : i \in 1..Len(noise)} = NoiseLines(file)

(* [Reference] names every port itself, wherever its list breaks, and wins   *)
(* over the option line; a lone option-line R stands for every port.         *)
ReferencesEveryPort ==
    outcome.kind = "network" =>
        /\ Len(z0) = Len(freqHz) * n
        /\ \A k \in 1..Len(freqHz), port \in 1..n :
              z0[(k - 1) * n + port] =
                  IF Has(file, "Reference") THEN ReferenceValues(file)[port]
                  ELSE LET line == Min(Options(file))
                       IN  <<line, IF Len(file[line].v) = 1 THEN 1 ELSE port>>

(* model.rs: Metadata.comments holds the "comment lines seen before the      *)
(* first data line, in order".                                               *)
KeepsCommentsBeforeData ==
    outcome.kind = "network" =>
        LET first == Min(LinesOf(file, {"data"}) \cap (DataBegins(file)..Len(file)))
        IN  {header.comments[i] : i \in 1..Len(header.comments)}
              = {i \in LinesOf(file, {"comment"}) : i < first}

(* v2.rs, Header::read: "option lines after the first are ignored"; ADR 0004 *)
(* calls it the one silent tolerance.  So no later one is what a file is     *)
(* refused for.                                                              *)
IgnoresLaterOptionLines ==
    pc = "done" /\ outcome.line \in Options(file) => outcome.line = Min(Options(file))

(* skip_information_block: "skip everything between [Begin Information] and  *)
(* [End Information]", a block for keywords the reader does not know.        *)
SkipsUnknownInformation ==
    pc = "done" /\ outcome.line \in Information(file) => outcome.kind # "KeywordFault"
=============================================================================
