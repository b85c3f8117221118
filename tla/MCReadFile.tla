------------------------------ MODULE MCReadFile ------------------------------
(***************************************************************************)
(* Calls for TLC: every short text, every short line behind an opening     *)
(* bracket, every short extension, and constructor calls over views of     *)
(* every layout.                                                           *)
(***************************************************************************)
EXTENDS PyNetwork

CONSTANTS MaxText,      \* characters of a text, at most
          MaxKeyword,   \* characters behind an opening bracket, at most
          MaxExtension  \* characters of an extension, at most

Call(entry, nports, readable, extension, t) ==
    [entry |-> entry, nports |-> nports, readable |-> readable,
     extension |-> extension, text |-> t]

Upto(alphabet, limit) == UNION {[1..k -> alphabet] : k \in 0..limit}

(* Texts of lines, carriage returns, markers and comments.  Asserting no     *)
(* ports at all, these calls end where the reader begins.                    *)
LineTexts == Upto({LF, CR, Mark, Bang, " ", "1"}, MaxText)

(* A first line in brackets: behind "[version" and alone, with each          *)
(* separator, a second bracket, and names of one and of three words.         *)
KeywordTexts ==
    {<<"[">> \o rest : rest \in Upto({"[", "]", " ", "-", TAB, "end", "data", "network"},
                                    MaxKeyword)}
    \cup {<<"[", "version">> \o rest : rest \in Upto({"]", " ", "-", "2.0", "2.1", CR, Mark},
                                                     MaxKeyword)}
    \cup {<<"[", "two", a, "port", b, "data", c, "order", "]">> :
            a, b, c \in {" ", "-", TAB}}
    \cup {<<Bang, "1", LF, LF, " ", "[", "version", "]", " ", "2.0">>,
          <<"1", LF, "[", "version", "]", " ", "2.0">>}

TextCalls == {Call("str", 0, TRUE, <<>>, t) : t \in LineTexts \cup KeywordTexts}

OnePoint == <<"#", LF, "1">>

Extensions ==
    Upto({"s", "P", "1", "0", "+", "x"}, MaxExtension) \cup {<<"s", "2", "5", "6", "p">>}

FileCalls ==
    {Call("file", nports, TRUE, extension, OnePoint) :
        nports \in {None, 0, 2}, extension \in Extensions}
    \cup {Call("file", nports, FALSE, <<"s", "2", "p">>, OnePoint) : nports \in {None, 1}}

ReadCalls ==
    {Call("read", None, TRUE, extension, OnePoint) :
        extension \in {<<>>, <<"s", "2", "p">>, <<"t", "s">>}}

(* Views of a shape: C order, Fortran order, reversed.                       *)
CStrides(shape) == [axis \in 1..Len(shape) |-> Step(shape, axis)]
FortranStrides(shape) ==
    [axis \in 1..Len(shape) |-> Size(SubSeq(shape, 1, axis - 1))]

Views(shape) ==
    { [is |-> "array", shape |-> shape, strides |-> CStrides(shape), base |-> 0],
      [is |-> "array", shape |-> shape, strides |-> FortranStrides(shape), base |-> 0],
      [is |-> "array", shape |-> shape, strides |-> [a \in 1..Len(shape) |-> -CStrides(shape)[a]],
       base |-> Size(shape) - 1] }

ViewsOver(shapes) == UNION {Views(shape) : shape \in shapes}

Matrices ==
    ViewsOver({<<2, 2, 2>>, <<2, 3, 3>>, <<3, 2, 2>>, <<2, 2, 3>>, <<2, 3, 2>>, <<0, 2, 2>>, <<2, 0, 0>>})
Sweeps == Views(<<2>>) \cup {[is |-> "array", shape |-> <<f>>, strides |-> <<1>>, base |-> 0] : f \in {0, 3}}
Impedances ==
    {[is |-> "none"], [is |-> "junk"]}
    \cup ViewsOver({<<>>, <<2>>, <<3>>, <<2, 2>>, <<2, 3>>, <<3, 2>>, <<0, 2>>, <<2, 2, 2>>})

ConstructorCalls ==
    {[entry |-> "new", f |-> f, s |-> s, z0 |-> z0] :
        f \in Sweeps, s \in Matrices, z0 \in Impedances}

AllCalls == TextCalls \cup FileCalls \cup ReadCalls \cup ConstructorCalls

(* Text that is only carriage returns is refused before a line is read:      *)
(* logical_lines is never given any (its doc comment, lines.rs).             *)
ReadersSeeRealLineEndings == stage = "reading" => ~HasCrOnlyLineEndings(text)
=============================================================================
