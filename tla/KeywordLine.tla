------------------------------ MODULE KeywordLine ------------------------------
(***************************************************************************)
(* One `[Keyword] argument` line (parser/keyword.rs).  Content is a        *)
(* sequence of characters in which a run of letters or digits counts as    *)
(* one, in lower case.                                                     *)
(***************************************************************************)
EXTENDS LogicalLines

(* Keyword::from_normalized, by the words of each name.                      *)
KeywordWords ==
    [Version                  |-> <<"version">>,
     NumberOfPorts            |-> <<"number", "of", "ports">>,
     TwoPortDataOrder         |-> <<"two", "port", "data", "order">>,
     NumberOfFrequencies      |-> <<"number", "of", "frequencies">>,
     NumberOfNoiseFrequencies |-> <<"number", "of", "noise", "frequencies">>,
     Reference                |-> <<"reference">>,
     MatrixFormat             |-> <<"matrix", "format">>,
     MixedModeOrder           |-> <<"mixed", "mode", "order">>,
     NetworkData              |-> <<"network", "data">>,
     NoiseData                |-> <<"noise", "data">>,
     BeginInformation         |-> <<"begin", "information">>,
     EndInformation           |-> <<"end", "information">>,
     End                      |-> <<"end">>]

(* What may not stand just inside the brackets, and must stand behind them. *)
Blanks == {" ", TAB}

(* Words with the separators between them.                                   *)
Joined(words, separators) ==
    [i \in 1..(2 * Len(words) - 1) |->
        IF i % 2 = 1 THEN words[(i + 1) \div 2] ELSE separators[i \div 2]]

(* The names it matches, with a space between the words.                     *)
NormalizedName ==
    [keyword \in DOMAIN KeywordWords |->
        LET words == KeywordWords[keyword]
        IN  Joined(words, [i \in 1..(Len(words) - 1) |-> " "])]

LooksLikeKeyword(content) == content # <<>> /\ content[1] = "["

(* The slip of looking for the bracket from the end of the line.             *)
LastBracket(content) == SelectLastInSeq(content, LAMBDA c : c = "]")

ClosingBracket(content) == SelectInSeq(content, LAMBDA c : c = "]")

Malformed == [verdict |-> "MalformedKeyword", argument |-> <<>>]

TrimStart(chars) ==
    SubSeq(chars, SelectInSeq(Append(chars, "."), IsInk), Len(chars))

(* parse_keyword_line: the keyword, or the fault, and the argument.  A dash  *)
(* reads as a space, one for one.                                            *)
ParseKeywordLine(content) ==
    LET close == ClosingBracket(content)
        name  == SubSeq(content, 2, close - 1)
        rest  == SubSeq(content, close + 1, Len(content))
        named == {k \in DOMAIN KeywordWords :
                    NormalizedName[k] = ReplaceAll(name, "-", " ")}
    IN  IF \/ close = 0
           \/ name = <<>>
           \/ name[1] \in Blanks \/ Last(name) \in Blanks
           \/ rest # <<>> /\ rest[1] \notin Blanks
        THEN Malformed
        ELSE IF named = {}
        THEN [verdict |-> "UnknownKeyword", argument |-> <<>>]
        ELSE [verdict |-> CHOOSE k \in named : TRUE, argument |-> TrimStart(rest)]
-----------------------------------------------------------------------------
(* Rule 7 of the 2.0 specification, as a spelling: the words of the keyword  *)
(* with one space or one dash between them, nothing else inside the          *)
(* brackets; rule 8: white space before the argument.                        *)
Spellings(keyword) ==
    LET words == KeywordWords[keyword]
    IN  {<<"[">> \o Joined(words, separators) \o <<"]">> :
            separators \in [1..(Len(words) - 1) -> {" ", "-"}]}

IsSpelled(content, keyword) ==
    \E spelling \in Spellings(keyword) :
        /\ IsPrefix(spelling, content)
        /\ Len(content) > Len(spelling) => content[Len(spelling) + 1] \in Blanks
=============================================================================
