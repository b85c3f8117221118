-------------------------------- MODULE ReadFile --------------------------------
(***************************************************************************)
(* One call of parse_str_with or parse_file_with (lib.rs) down to the      *)
(* reader it chooses (parser/mod.rs): the file is read, a port count taken *)
(* from the caller or the extension, the line endings judged, the          *)
(* end-of-file marker taken off and the version sniffed.  From there on    *)
(* the call is the reader's, of which only the promise is known: Reader is *)
(* SweepReader, which V1Reader and V2Reader implement.                     *)
(***************************************************************************)
EXTENDS KeywordLine, DataShape

CONSTANTS Calls,          \* the calls that may be made
          Frequencies,    \* the frequencies a file may hold
          PortCounts      \* the port counts a network may have

ASSUME CallsAssumption ==
    \A c \in Calls : c.entry \in {"str", "file", "read"} =>
        /\ c.nports \in Nat \cup {None}
        /\ c.extension \in Seq(STRING)
        /\ c.text \in Seq(STRING)

ASSUME PortCountsAssumption == PortCounts \subseteq Nat \ {0}

VARIABLES
    call,        \* how it is called: [entry, nports, readable, extension, text]
    stage,       \* how far the call has come
    text,        \* the text as the next step sees it
    reader,      \* "v1" or "v2", once chosen
    fault,       \* the kind of error, and
    faultLine,   \* its line
    requested, result, ports, freqHz, entries, references, noiseHz

Reader == INSTANCE SweepReader WITH Unknown <- None

sweep    == <<ports, freqHz, entries, references, noiseHz>>
readVars == <<call, stage, text, reader, fault, faultLine, requested, result, sweep>>

Returned == result # "reading"

ReadInit ==
    /\ call \in Calls
    /\ stage = CASE call.entry = "str"               -> "endings"
                 [] call.entry \in {"file", "read"}  -> "open"
                 [] OTHER                            -> "idle"
    /\ text = IF stage = "idle" THEN <<>> ELSE call.text
    /\ reader = "none"
    /\ fault = "none"
    /\ faultLine = 0
    /\ requested = IF stage = "idle" THEN None ELSE call.nports
    /\ Reader!Init

Fail(kind, line) ==
    /\ result' = "error"
    /\ fault' = kind
    /\ faultLine' = line
    /\ UNCHANGED <<call, stage, text, reader, requested, sweep>>

GoOn(next) ==
    /\ stage' = next
    /\ UNCHANGED <<call, fault, faultLine, result, sweep>>
-----------------------------------------------------------------------------
Digits == <<"0", "1", "2", "3", "4", "5", "6", "7", "8", "9">>

Value(digit) == (CHOOSE i \in 1..10 : Digits[i] = digit) - 1

(* str::parse::<usize>: digits, one plus sign allowed, within usize.         *)
ParseUsize(chars) ==
    LET digits == IF chars # <<>> /\ chars[1] = "+" THEN Tail(chars) ELSE chars
        value  == FoldLeft(LAMBDA sum, d : 10 * sum + Value(d), 0, digits)
    IN  IF digits = <<>> \/ ~ToSet(digits) \subseteq Range(Digits)
        THEN None
        ELSE IF Fits(value) THEN value ELSE None

(* nports_from_extension: .sNp in either case, for a positive N.             *)
NportsFromExtension(extension) ==
    IF \/ Len(extension) < 3
       \/ extension[1] \notin {"s", "S"}
       \/ Last(extension) \notin {"p", "P"}
    THEN None
    ELSE LET n == ParseUsize(SubSeq(extension, 2, Len(extension) - 1))
         IN  IF n = 0 THEN None ELSE n

(* The slip of trusting the name of the file before its caller.              *)
NameBeforeCaller(c) ==
    IF NportsFromExtension(c.extension) # None
    THEN NportsFromExtension(c.extension)
    ELSE c.nports

(* The caller knows more about the file than its name does.                  *)
CallerBeforeName(c) ==
    IF c.nports # None THEN c.nports ELSE NportsFromExtension(c.extension)

OpenFile ==
    /\ stage = "open"
    /\ ~Returned
    /\ \/ /\ ~call.readable
          /\ Fail("Io", 0)
       \/ /\ call.readable
          /\ requested' = CallerBeforeName(call)
          /\ GoOn("endings")
          /\ UNCHANGED <<text, reader>>

CheckLineEndings ==
    /\ stage = "endings"
    /\ ~Returned
    /\ \/ /\ HasCrOnlyLineEndings(text)
          /\ Fail("UnsupportedLineEndings", 1)
       \/ /\ ~HasCrOnlyLineEndings(text)
          /\ GoOn("marker")
          /\ UNCHANGED <<text, reader, requested>>

(* The slip of a loop whose test looks past white space and whose body does  *)
(* not.                                                                      *)
StripMarkersInALoop ==
    /\ stage = "marker"
    /\ IF TrimEnd(text) # <<>> /\ Last(TrimEnd(text)) = Mark
       THEN /\ text' = IF Last(text) = Mark THEN Front(text) ELSE text
            /\ GoOn("marker")
       ELSE GoOn("sniff") /\ UNCHANGED text
    /\ UNCHANGED <<reader, requested>>

StripMarker ==
    /\ stage = "marker"
    /\ text' = WithoutTrailingEofMarker(text)
    /\ GoOn("sniff")
    /\ UNCHANGED <<reader, requested>>

(* The first line with content, or 0.                                        *)
SniffLine(lines) == SelectInSeq(lines, LAMBDA l : l.content # <<>>)

Content(lines, k) == IF k = 0 THEN <<>> ELSE Chars(text, lines[k].content)

FirstContent ==
    LET lines == LogicalLinesOf(text) IN Content(lines, SniffLine(lines))

(* The slip of knowing one version only.                                     *)
SniffFaultBefore21(keyword) ==
    IF keyword.verdict \notin DOMAIN KeywordWords THEN keyword.verdict
    ELSE IF keyword.verdict # "Version" THEN "KeywordOutOfOrder"
    ELSE IF keyword.argument # <<"2.0">> THEN "UnsupportedVersion"
    ELSE "none"

(* The fault sniff_version finds in a first line that opens a keyword.       *)
SniffFault(keyword) ==
    IF keyword.verdict \notin DOMAIN KeywordWords THEN keyword.verdict
    ELSE IF keyword.verdict # "Version" THEN "KeywordOutOfOrder"
    ELSE IF keyword.argument \notin {<<"2.0">>, <<"2.1">>} THEN "UnsupportedVersion"
    ELSE "none"

(* sniff_version, and the reader it chooses.                                 *)
Sniff ==
    /\ stage = "sniff"
    /\ ~Returned
    /\ \E lines \in {LogicalLinesOf(text)} : \E k \in {SniffLine(lines)} :
       \E content \in {Content(lines, k)} :
          \/ /\ ~LooksLikeKeyword(content)
             /\ reader' = "v1"
             /\ GoOn("reading")
             /\ UNCHANGED <<text, requested>>
          \/ /\ LooksLikeKeyword(content)
             /\ \E kind \in {SniffFault(ParseKeywordLine(content))} :
                   \/ /\ kind = "none"
                      /\ reader' = "v2"
                      /\ GoOn("reading")
                      /\ UNCHANGED <<text, requested>>
                   \/ /\ kind # "none"
                      /\ Fail(kind, k)

Read ==
    /\ stage = "reading"
    /\ Reader!Next
    /\ UNCHANGED <<call, stage, text, reader, fault, faultLine>>

Answer == Read /\ (Reader!Accept \/ Reader!Reject)

Steps == OpenFile \/ CheckLineEndings \/ StripMarker \/ Sniff

ReadNext == Steps \/ Read

(* The call goes on until it returns; the reader, as SweepReader promises,   *)
(* does not read forever.                                                    *)
ReadFairness == WF_readVars(Steps) /\ WF_readVars(Answer)
-----------------------------------------------------------------------------
(* Where a character stands, without splitting the text: its line is one     *)
(* more than the line feeds before it, and it is in a comment if a bang      *)
(* stands before it on its line.                                             *)
LineNumber(t, p) == Cardinality({i \in 1..(p - 1) : t[i] = LF}) + 1

InComment(t, p) ==
    \E q \in 1..p : t[q] = Bang /\ \A i \in q..p : t[i] # LF

(* The marker counts only as the last character that is no white space.      *)
IsTrailingMark(t, p) == t[p] = Mark /\ \A i \in (p + 1)..Len(t) : ~IsInk(t[i])

DataCharacters(t) ==
    {p \in 1..Len(t) : IsInk(t[p]) /\ ~InComment(t, p) /\ ~IsTrailingMark(t, p)}

(* What the lines show, each character with the number of its line, and what *)
(* of a text is there to be seen.                                            *)
SeenOnLines(lines) ==
    UNION {{<<lines[k].number, p>> : p \in ToSet(lines[k].content)} : k \in DOMAIN lines}

Visible(t) == {seen \in (1..Len(t)) \X (1..Len(t)) : IsInk(t[seen[2]])}

(* The readers see every character of the file that is neither comment nor   *)
(* the trailing marker, on the line where it stands, and no other (lines.rs, *)
(* and the order of parse's first two steps).                                *)
KeepsEveryCharacter ==
    stage = "sniff" =>
        LET lines == LogicalLinesOf(text)
        IN  /\ SeenOnLines(lines) \cap Visible(call.text)
                 = {<<LineNumber(call.text, p), p>> : p \in DataCharacters(call.text)}
            /\ \A k \in DOMAIN lines :
                    lines[k].commented <=>
                        \E p \in 1..Len(text) : /\ text[p] = Bang
                                                /\ LineNumber(call.text, p) = k

(* A line is read as a keyword exactly if it is one of the thirteen spelled  *)
(* as rule 7 has it, and never as two of them (parse_keyword_line).          *)
KeywordsAreSpelledExactly ==
    stage = "sniff" /\ LooksLikeKeyword(FirstContent) =>
        LET content == FirstContent
            verdict == ParseKeywordLine(content).verdict
        IN  \A keyword \in DOMAIN KeywordWords :
                verdict = keyword <=> IsSpelled(content, keyword)

(* The first character of data, and the data on its line.                    *)
FirstData(t) == CHOOSE p \in DataCharacters(t) : \A q \in DataCharacters(t) : p <= q

OnLineOfFirst(t) ==
    {p \in DataCharacters(t) : LineNumber(t, p) = LineNumber(t, FirstData(t))}

(* The data opens a keyword; and the keyword is [Version] 2.0 or 2.1, with   *)
(* nothing else on its line.                                                 *)
OpensBracket(t) == DataCharacters(t) # {} /\ t[FirstData(t)] = "["

DeclaresVersion2(t) ==
    LET line == SubSeq(t, FirstData(t), Max(OnLineOfFirst(t)))
    IN  /\ IsSpelled(line, "Version")
        /\ Last(line) \in {"2.0", "2.1"}
        /\ Cardinality(OnLineOfFirst(t)) = 4

(* Of the texts that are not of carriage returns alone, the 2.0 reader is    *)
(* given those whose first line with data is [Version] 2.0 or 2.1 and the    *)
(* 1.x reader those whose data opens with no bracket; no other text comes to *)
(* a reader, and none of these is refused before (parse, sniff_version).     *)
ReaderSuitsTheFile ==
    \/ stage = "reading"
    \/ /\ Returned /\ stage \in {"endings", "marker", "sniff"}
       /\ ~HasCrOnlyLineEndings(call.text)
    =>  reader = IF ~OpensBracket(call.text) THEN "v1"
                 ELSE IF DeclaresVersion2(call.text) THEN "v2"
                 ELSE "none"

(* N is the port count an extension names: its digits are those of N, behind *)
(* any zeros.                                                                *)
NamesPorts(extension, n) ==
    LET last == Len(extension) - 1
        power[k \in 0..Len(extension)] == IF k = 0 THEN 1 ELSE 10 * power[k - 1]
    IN  \E from \in 2..3 :
            /\ from <= last
            /\ extension[1] \in {"s", "S"} /\ Last(extension) \in {"p", "P"}
            /\ from = 3 => extension[2] = "+"
            /\ \A i \in from..last :
                  /\ extension[i] \in Range(Digits)
                  /\ Value(extension[i]) = (n \div power[last - i]) % 10
            /\ n < power[last - from + 1]

(* A network has the port count its caller asserted; without one, that of    *)
(* the name it was read under; a name no network can have asserts nothing    *)
(* (parse_file_with, nports_from_extension).                                 *)
CountIsHonoured ==
    result = "network" =>
        /\ call.nports # None => ports = call.nports
        /\ call.nports = None /\ call.entry # "str" =>
              \A n \in 1..MaxUsize : NamesPorts(call.extension, n) => ports = n
=============================================================================
