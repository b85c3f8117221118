------------------------------- MODULE MCV2Reader -------------------------------
(***************************************************************************)
(* Instances of V2Reader for TLC.  Almost every sequence of v2 lines is    *)
(* refused at once, so the files are valid ones and what is one or two     *)
(* edits away from them.                                                   *)
(***************************************************************************)
EXTENDS V2Grammar

Inf == MaxFinite + 1
MinusInf == -MaxFinite - 1

A(kind) == [kind |-> kind, arg |-> "", count |-> 0, v |-> <<>>]
Word(kind, arg) == [A(kind) EXCEPT !.arg = arg]
Count(kind, k) == [A(kind) EXCEPT !.count = k]
Numbers(kind, v) == [A(kind) EXCEPT !.v = v]
Data(v) == Numbers("data", v)
Option(arg, v) == [A("option") EXCEPT !.arg = arg, !.v = v]

(* A point or a noise row: its frequency and k values behind it.             *)
Tokens(hz, k) == <<hz>> \o [i \in 1..k |-> 4]
-----------------------------------------------------------------------------
(* Headers: one edit anywhere in a whole file.                               *)

TwoPortFile ==
    << A("Version"), A("comment"), Option("ri", <<5>>), Count("NumberOfPorts", 2),
       Word("TwoPortDataOrder", "21_12"), Count("NumberOfFrequencies", 1),
       Count("NumberOfNoiseFrequencies", 1), Numbers("Reference", <<5>>),
       Data(<<7>>), A("NetworkData"), Data(Tokens(1, 8)), A("NoiseData"),
       Data(Tokens(1, 4)), A("End") >>
OnePortFile ==
    << A("Version"), Option("db", <<5>>), A("BeginInformation"), Data(<<7>>),
       A("EndInformation"), Count("NumberOfPorts", 1), Word("MatrixFormat", "Full"),
       Count("NumberOfFrequencies", 2), A("NetworkData"), Data(<<1, 4>>),
       Data(<<4, 2, 4, 4>>) >>

OtherLines ==
    { A("blank"), A("comment"), A("broken"), A("Version"), A("MixedModeOrder"),
      A("BeginInformation"), A("EndInformation"), A("NetworkData"), A("NoiseData"),
      A("End"), Option("ri", <<5>>), Option("ri", <<5, 7>>),
      Option("unsupported", <<5>>), Option("malformed", <<5>>), Data(<<9>>),
      Data(<<9, 9>>), Data(<<Unreadable>>), Numbers("Reference", <<>>),
      Numbers("Reference", <<5>>), Numbers("Reference", <<7, 7>>),
      Numbers("Reference", <<0>>), Numbers("Reference", <<5, 5, 5>>),
      Count("NumberOfNoiseFrequencies", 2) }
  \cup { Count(w, k) : w \in {"NumberOfPorts", "NumberOfFrequencies"}, k \in {0, 1, 2, 7, 99} }
  \cup { Word("TwoPortDataOrder", o) : o \in TwoPortOrders \cup {"2112"} }
  \cup { Word("MatrixFormat", o) : o \in MatrixFormats \cup {"Square"} }

Dropped(f, i) == SubSeq(f, 1, i - 1) \o SubSeq(f, i + 1, Len(f))
Inserted(f, i, line) == SubSeq(f, 1, i - 1) \o <<line>> \o SubSeq(f, i, Len(f))

(* The version line stays: without it the file would not come here.          *)
OneEdit(f, lines) ==
    {f} \cup {Dropped(f, i) : i \in 2..Len(f)}
        \cup {Inserted(f, i, line) : i \in 1..(Len(f) + 1), line \in lines}
        \cup {Inserted(Dropped(f, i), i, line) : i \in 2..Len(f), line \in lines}
        \cup {Inserted(Dropped(f, i), j, f[i]) : i \in 2..Len(f), j \in 2..Len(f)}

Sniffed(f) == f[Min({i \in 1..Len(f) : f[i].kind \notin Empty})].kind = "Version"

HeaderFiles ==
    {f \in OneEdit(TwoPortFile, OtherLines) \cup OneEdit(OnePortFile, OtherLines) : Sniffed(f)}
HeaderHints == {None, 2}
-----------------------------------------------------------------------------
(* Headers: two edits, from fewer lines.                                     *)

FewLines ==
    { A("comment"), A("BeginInformation"), A("EndInformation"), Option("ri", <<5>>),
      Data(<<9>>), Numbers("Reference", <<>>) }
ShortFile ==
    << A("Version"), Option("ri", <<5>>), Count("NumberOfPorts", 1),
       Count("NumberOfFrequencies", 1), A("NetworkData"), Data(<<1, 4, 4>>) >>

BlockFiles ==
    {f \in UNION {OneEdit(g, FewLines) :
                    g \in OneEdit(ShortFile, FewLines \cup {Numbers("Reference", <<9>>)})} :
        Sniffed(f)}
-----------------------------------------------------------------------------
(* Data: the points of every shape, broken into lines at any place.          *)

Shape(ports, order, format, values, sweep) ==
    << A("Version"), Option(values, <<5>>), Count("NumberOfPorts", ports) >>
      \o (IF ports = 2 THEN <<Word("TwoPortDataOrder", order)>> ELSE <<>>)
      \o << Word("MatrixFormat", format), Count("NumberOfFrequencies", sweep),
            A("NetworkData") >>

SizeOf(ports, format) ==
    IF format = "Full" THEN ValuesPerPoint(ports) ELSE TriangleValues(ports)

Stream(size, sweep) ==
    [i \in 1..(size * sweep) |-> IF (i - 1) % size = 0 THEN (i - 1) \div size + 1 ELSE 4]

BrokenAfter(v, cuts) ==
    LET ends == SelectSeq([i \in 1..Len(v) |-> i], LAMBDA i : i \in cuts \cup {Len(v)})
    IN  [k \in 1..Len(ends) |->
            Data(SubSeq(v, IF k = 1 THEN 1 ELSE ends[k - 1] + 1, ends[k]))]

FewCuts(v) == {{}} \cup {{i, j} : i, j \in 1..(Len(v) - 1)}

ShapeFiles ==
    UNION { LET v == Stream(SizeOf(x[1], x[3]), x[4])
            IN  {Shape(x[1], x[2], x[3], "ri", x[4]) \o BrokenAfter(v, cuts) :
                    cuts \in FewCuts(v)} :
        x \in ({1} \X {"none"} \X MatrixFormats \X {1, 2, 3})
                \cup ({2} \X TwoPortOrders \X MatrixFormats \X {1, 2})
                \cup ({3} \X {"none"} \X MatrixFormats \X {1}) }

(* One token wrong, one too many or too few, in a one-port and a triangular  *)
(* two-port file, on one line, in two, or one token to a line.               *)
WrongStreams(v) ==
    {[v EXCEPT ![i] = x] : i \in 1..Len(v), x \in {1, 2, MaxDecibels + 1, Inf, MinusInf, Unreadable}}
      \cup {SubSeq(v, 1, i) : i \in 1..Len(v)} \cup {v \o <<3>>, v \o <<3, 4, 4>>}

StreamFiles ==
    UNION { UNION { {Shape(x[1], "12_21", x[2], values, 2) \o BrokenAfter(v, cuts) :
                       cuts \in {{}, {Len(v) \div 2} \ {0}, 1..(Len(v) - 1)}} :
                v \in WrongStreams(Stream(SizeOf(x[1], x[2]), 2)) } :
        x \in {<<1, "Full">>, <<2, "Lower">>}, values \in ValueFormats }

(* Noise: every short sequence of lines behind a two-port sweep.             *)
NoiseHeader ==
    << A("Version"), Option("ri", <<5>>), Count("NumberOfPorts", 2),
       Word("TwoPortDataOrder", "12_21"), Count("NumberOfFrequencies", 1),
       Count("NumberOfNoiseFrequencies", 2), A("NetworkData") >>
NoiseFileLines ==
    { Data(Tokens(1, 8)), Data(Tokens(1, 4)), Data(Tokens(2, 4)), Data(Tokens(3, 3)),
      Data(<<1, 4, 4, Inf, 4>>), Data(<<Inf, 4, 4, 4, 4>>), Data(<<MinusInf, 4, 4, 4, 4>>),
      Data(<<1, 4, 4, 4, Unreadable>>),
      A("NoiseData"), A("End"), A("comment"), A("broken"), Option("ri", <<5>>) }
NoiseFiles == {NoiseHeader \o f : f \in [1..3 -> NoiseFileLines]}
              \cup {NoiseHeader \o <<Data(Tokens(1, 8)), A("NoiseData")>> \o f :
                      f \in [1..3 -> NoiseFileLines]}

(* A [Reference] list for the one port there is, and for many there are not. *)
ReferenceFiles ==
    UNION {OneEdit(<< A("Version"), Option("ri", <<5>>), Count("NumberOfPorts", ports),
                      Numbers("Reference", <<5>>), Count("NumberOfFrequencies", 1),
                      A("NetworkData"), Data(<<1, 4, 4>>) >>, FewLines) :
           ports \in {1, 99}}

KeywordFiles == HeaderFiles \cup BlockFiles
DataFiles == ShapeFiles \cup StreamFiles \cup NoiseFiles
DataHints == {None, 2}
FileSlacks == {40, 80}
OneSlack == {40}
=============================================================================
