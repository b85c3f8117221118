----------------------------- MODULE LogicalLines -----------------------------
(***************************************************************************)
(* The text both readers draw their lines from (lines.rs).  A text is a    *)
(* sequence of characters, a run of letters or digits counting as one; a   *)
(* line's content and comment are the positions of its characters in the   *)
(* text, so that what becomes of each character can be told.               *)
(***************************************************************************)
EXTENDS Integers, SequencesExt

CR   == "\r"
LF   == "\n"
TAB  == "\t"
Mark == "^Z"    \* 0x1A, the DOS end-of-file marker
Bang == "!"

(* What trim takes away.  The marker is no white space.                      *)
Whitespace == {" ", TAB, CR, LF}

IsInk(char) == char \notin Whitespace

(* has_cr_only_line_endings                                                  *)
HasCrOnlyLineEndings(text) == CR \in Range(text) /\ LF \notin Range(text)

TrimEnd(text) == SubSeq(text, 1, SelectLastInSeq(text, IsInk))

(* The slip the doc comment names: truncating at the first marker, as DOS    *)
(* did.                                                                      *)
WithoutTextBehindMarker(text) ==
    IF Mark \in Range(text)
    THEN SubSeq(text, 1, SelectInSeq(text, LAMBDA c : c = Mark) - 1)
    ELSE text

(* without_trailing_eof_marker: one marker and the white space behind it, or *)
(* the text as it is.                                                        *)
WithoutTrailingEofMarker(text) ==
    LET trimmed == TrimEnd(text)
    IN  IF trimmed # <<>> /\ Last(trimmed) = Mark THEN Front(trimmed) ELSE text

(* The positions from a to b without white space at either end.              *)
Trimmed(text, a, b) ==
    LET ink == {i \in a..b : IsInk(text[i])}
    IN  IF ink = {}
        THEN <<>>
        ELSE [i \in 1..(Max(ink) - Min(ink) + 1) |-> Min(ink) + i - 1]

(* str::lines breaks at every line feed.  The carriage return it also takes  *)
(* off the end of a line, trim would.                                        *)
LineFeeds(text) ==
    LET upTo[i \in 0..Len(text)] ==
            IF i = 0 THEN <<>>
            ELSE IF text[i] = LF THEN Append(upTo[i - 1], i) ELSE upTo[i - 1]
    IN  upTo[Len(text)]

LineCount(text) ==
    Len(LineFeeds(text)) + (IF text # <<>> /\ Last(text) # LF THEN 1 ELSE 0)

(* One line from position a to b, split at the first bang.                   *)
LogicalLine(text, k, a, b) ==
    LET bang == SelectInSubSeq(text, a, b, LAMBDA c : c = Bang)
    IN  [number    |-> k,
         content   |-> Trimmed(text, a, IF bang = 0 THEN b ELSE bang - 1),
         commented |-> bang # 0,
         comment   |-> IF bang = 0 THEN <<>> ELSE Trimmed(text, bang + 1, b)]

(* logical_lines: blank and comment-only lines are yielded too.              *)
LogicalLinesOf(text) ==
    LET breaks == <<0>> \o LineFeeds(text) \o <<Len(text) + 1>>
    IN  [k \in 1..LineCount(text) |->
            LogicalLine(text, k, breaks[k] + 1, breaks[k + 1] - 1)]

(* The characters at some positions.                                         *)
Chars(text, positions) == [i \in DOMAIN positions |-> text[positions[i]]]
=============================================================================
